---- MODULE Spec2Model ----
(***************************************************************************)
(* A model of the fire-signal routing core: the destination store, the     *)
(* provider registry, the tag filter, the placeholder substitutor, the     *)
(* dispatch loop of FireSignal.send() and the error handler with its       *)
(* one-level fallback dispatch (FireSignal.handleError / sendInternal).    *)
(*                                                                         *)
(* Strings of the program are modelled as sequences of one-character       *)
(* strings, so that trimming, lower-casing, scheme extraction, placeholder *)
(* scanning and percent-encoding are computed character by character.      *)
(***************************************************************************)
EXTENDS Integers, Sequences, FiniteSets, TLC

(***************************************************************************)
(* Bounds of the model.                                                    *)
(***************************************************************************)
\* the largest number of entries the destination store is filled with
MaxEntries == 2

(***************************************************************************)
(* Characters and strings.                                                 *)
(***************************************************************************)
UpperLetters == <<"A","B","C","D","E","F","G","H","I","J","K","L","M",
                  "N","O","P","Q","R","S","T","U","V","W","X","Y","Z">>
LowerLetters == <<"a","b","c","d","e","f","g","h","i","j","k","l","m",
                  "n","o","p","q","r","s","t","u","v","w","x","y","z">>
Digits == {"0","1","2","3","4","5","6","7","8","9"}

Range(f) == {f[x] : x \in DOMAIN f}

IsUpper(c) == c \in Range(UpperLetters)
IsLower(c) == c \in Range(LowerLetters)
IsAlpha(c) == IsUpper(c) \/ IsLower(c)

\* String.prototype.toLowerCase on one character
LowerChar(c) ==
  IF IsUpper(c)
    THEN LowerLetters[CHOOSE k \in DOMAIN UpperLetters : UpperLetters[k] = c]
    ELSE c

\* String.prototype.toLowerCase
ToLowerCase(s) == [k \in DOMAIN s |-> LowerChar(s[k])]

IsSpace(c) == c \in {" ", "\t", "\n"}

\* String.prototype.trim
Trim(s) ==
  LET keep == {k \in DOMAIN s : ~IsSpace(s[k])}
  IN  IF keep = {} THEN <<>>
      ELSE LET lo == CHOOSE k \in keep : \A m \in keep : k <= m
               hi == CHOOSE k \in keep : \A m \in keep : k >= m
           IN  SubSeq(s, lo, hi)

\* an optional value (undefined | value)
Undefined == [defined |-> FALSE, val |-> <<>>]
Some(v) == [defined |-> TRUE, val |-> v]

(***************************************************************************)
(* The tag filter (config/tags.ts).                                        *)
(***************************************************************************)
\* entries.map((e) => e.url)
UrlsOf(es) == [k \in DOMAIN es |-> es[k].url]

\* faulty variant: tags are compared as written, without lower-casing
EntryMatchesCaseSensitive(entry, filterTags) ==
  \E k \in DOMAIN entry.tags : entry.tags[k] \in Range(filterTags)

\* the predicate of the .filter() call: a tagged entry with some tag whose
\* lower-cased form is in the lower-cased filter set
EntryMatches(entry, filterTags) ==
  LET filterSet == {ToLowerCase(filterTags[k]) : k \in DOMAIN filterTags}
  IN  IF Len(entry.tags) = 0
        THEN FALSE
        ELSE \E k \in DOMAIN entry.tags : ToLowerCase(entry.tags[k]) \in filterSet

\* faulty variant: only an absent filter selects everything; an empty list
\* filters like any other list, and so selects nothing
filterByTagsEmptySelects(es, filterTags) ==
  IF ~filterTags.defined
    THEN UrlsOf(es)
    ELSE LET keep(e) == EntryMatches(e, filterTags.val)
         IN  UrlsOf(SelectSeq(es, keep))

\* filterByTags(entries, filterTags?) ; filterTags is an optional value
filterByTags(es, filterTags) ==
  IF ~filterTags.defined \/ Len(filterTags.val) = 0
    THEN UrlsOf(es)
    ELSE LET keep(e) == EntryMatches(e, filterTags.val)
         IN  UrlsOf(SelectSeq(es, keep))

(***************************************************************************)
(* The placeholder substitutor (FireSignal.ts, replacePlaceholders).       *)
(***************************************************************************)
\* characters encodeURIComponent leaves alone
IsUnreserved(c) ==
  IsAlpha(c) \/ c \in Digits \/ c \in {"-", "_", ".", "!", "~", "*", "'", "(", ")"}

\* the escape of one character of the modelled alphabet
EncodeChar(c) ==
  IF IsUnreserved(c) THEN <<c>>
  ELSE IF c = " " THEN <<"%", "2", "0">>
  ELSE IF c = "%" THEN <<"%", "2", "5">>
  ELSE IF c = "/" THEN <<"%", "2", "F">>
  ELSE IF c = ":" THEN <<"%", "3", "A">>
  ELSE IF c = "{" THEN <<"%", "7", "B">>
  ELSE IF c = "}" THEN <<"%", "7", "D">>
  ELSE IF c = "[" THEN <<"%", "5", "B">>
  ELSE IF c = "]" THEN <<"%", "5", "D">>
  ELSE IF c = "=" THEN <<"%", "3", "D">>
  ELSE IF c = "@" THEN <<"%", "4", "0">>
  ELSE IF c = "+" THEN <<"%", "2", "B">>
  ELSE IF c = "&" THEN <<"%", "2", "6">>
  ELSE IF c = "?" THEN <<"%", "3", "F">>
  ELSE IF c = "#" THEN <<"%", "2", "3">>
  ELSE <<"%", "?", "?">>

RECURSIVE encodeURIComponent(_)
encodeURIComponent(s) ==
  IF s = <<>> THEN <<>> ELSE EncodeChar(Head(s)) \o encodeURIComponent(Tail(s))

\* The result of a call that may throw: ok with a value, or the thrown key.
Replaced(u) == [ok |-> TRUE, url |-> u, key |-> <<>>]
MissingParam(k) == [ok |-> FALSE, url |-> <<>>, key |-> k]

\* What every object literal inherits from Object.prototype, as far as it is
\* modelled: the function valueOf, with the text String() gives for it.
KeyValueOf == <<"v","a","l","u","e","O","f">>
ObjectPrototype ==
  KeyValueOf :>
    <<"f","u","n","c","t","i","o","n"," ","v","a","l","u","e","O","f","(",")",
      " ","{"," ","[","n","a","t","i","v","e"," ","c","o","d","e","]"," ","}">>

\* params[key] on an object literal: its own property, else the inherited one,
\* else undefined
ParamsGet(params, key) ==
  IF key \in DOMAIN params THEN Some(params[key])
  ELSE IF key \in DOMAIN ObjectPrototype THEN Some(ObjectPrototype[key])
  ELSE Undefined

\* url.replace(/\{([^}]+)\}/g, ...) scanning from position p: a token is a
\* "{", at least one character other than "}", and the first "}" after it.
RECURSIVE ReplaceFrom(_, _, _)
ReplaceFrom(url, params, p) ==
  IF p > Len(url) THEN Replaced(<<>>)
  ELSE
    LET closes == {q \in (p + 1)..Len(url) : url[q] = "}"}
        q == CHOOSE c \in closes : \A d \in closes : c <= d
    IN  IF url[p] = "{" /\ closes # {} /\ q >= p + 2
          THEN LET key == SubSeq(url, p + 1, q - 1)
                   value == ParamsGet(params, key)
               IN  IF ~value.defined
                     THEN MissingParam(key)
                     ELSE LET rest == ReplaceFrom(url, params, q + 1)
                          IN  IF rest.ok
                                THEN Replaced(encodeURIComponent(value.val) \o rest.url)
                                ELSE rest
          ELSE LET rest == ReplaceFrom(url, params, p + 1)
               IN  IF rest.ok THEN Replaced(<<url[p]>> \o rest.url) ELSE rest

\* replacePlaceholders(url, params = {})
replacePlaceholders(url, params) == ReplaceFrom(url, params, 1)

(***************************************************************************)
(* The provider registry (FireSignal.ts).                                  *)
(***************************************************************************)
IsSchemeChar(c) == IsAlpha(c) \/ c \in Digits \/ c \in {"+", ".", "-"}

\* url.match(/^([a-zA-Z][a-zA-Z0-9+.-]*):/)?.[1]?.toLowerCase() ?? ''
extractSchema(url) ==
  LET stops == {q \in DOMAIN url : ~IsSchemeChar(url[q])}
      q == CHOOSE c \in stops : \A d \in stops : c <= d
  IN  IF Len(url) >= 1 /\ IsAlpha(url[1]) /\ stops # {} /\ url[q] = ":"
        THEN ToLowerCase(SubSeq(url, 1, q - 1))
        ELSE <<>>

\* Map.set(key, provider)
MapSet(reg, key, provider) ==
  [s \in DOMAIN reg \cup {key} |-> IF s = key THEN provider ELSE reg[s]]

\* registerProvider(provider): every declared schema, lower-cased, in order
RECURSIVE RegisterFrom(_, _, _)
RegisterFrom(reg, provider, k) ==
  IF k > Len(provider.schemas) THEN reg
  ELSE RegisterFrom(MapSet(reg, ToLowerCase(provider.schemas[k]), provider),
                    provider, k + 1)

\* faulty variant: a schema that has an owner keeps it
RECURSIVE RegisterFromKeepsFirst(_, _, _)
RegisterFromKeepsFirst(reg, provider, k) ==
  IF k > Len(provider.schemas) THEN reg
  ELSE LET key == ToLowerCase(provider.schemas[k])
       IN  RegisterFromKeepsFirst(IF key \in DOMAIN reg THEN reg
                                                       ELSE MapSet(reg, key, provider),
                                  provider, k + 1)

registerProviderKeepsFirst(reg, provider) == RegisterFromKeepsFirst(reg, provider, 1)

registerProvider(reg, provider) == RegisterFrom(reg, provider, 1)

\* getProvider(schema): this.providers.get(schema.toLowerCase())
getProvider(reg, schema) ==
  IF ToLowerCase(schema) \in DOMAIN reg
    THEN Some(reg[ToLowerCase(schema)])
    ELSE Undefined

\* the constructor's loop over options.providers
RECURSIVE RegisterAll(_, _)
RegisterAll(reg, ps) ==
  IF ps = <<>> THEN reg ELSE RegisterAll(registerProvider(reg, Head(ps)), Tail(ps))

\* new Map()
EmptyMap == [s \in {} |-> 0]

(***************************************************************************)
(* Values of the program.                                                  *)
(***************************************************************************)
\* an Error object: its class name, its message text and the value the
\* message is built around (a placeholder key, a schema)
Err(name, msg, arg) == [name |-> name, msg |-> msg, arg |-> arg]

\* no error object (result.error is undefined)
NoError == Err("undefined", "", <<>>)

\* new Error(`Missing param '${key}' for URL placeholder`)
MissingParamError(key) == Err("Error", "Missing param for URL placeholder", key)

\* new FSProviderNotFoundError(schema)
FSProviderNotFoundError(schema) ==
  Err("FSProviderNotFoundError", "No provider found for schema", schema)

\* new Error('Unknown error')
UnknownError == Err("Error", "Unknown error", <<>>)

\* error instanceof Error ? error : new Error(String(error))
ToError(thrown) ==
  IF thrown.name = "string" THEN Err("Error", thrown.msg, <<>>) ELSE thrown

\* 'unknown'
UnknownId == <<"u","n","k","n","o","w","n">>

\* an FSProviderResult
Result(success, providerId, error) ==
  [success |-> success, providerId |-> providerId, error |-> error]

(***************************************************************************)
(* The URL parser (UrlParser.ts, parseFSUrl) and the platform functions it *)
(* calls: String.split/join, parseInt, decodeURIComponent, URLSearchParams *)
(* and the URL constructor, as far as the characters drawn here go:        *)
(* letters, digits, and / ? # & = : @ . + - _ % and the space.             *)
(***************************************************************************)
Min(S) == CHOOSE x \in S : \A y \in S : x <= y
Max(S) == CHOOSE x \in S : \A y \in S : x >= y

\* the positions of the character c in s
Positions(s, c) == {k \in DOMAIN s : s[k] = c}

\* s.slice(k): s from the position after k on
After(s, k) == SubSeq(s, k + 1, Len(s))

\* s.split(c)
RECURSIVE Split(_, _)
Split(s, c) ==
  IF Positions(s, c) = {} THEN <<s>>
  ELSE LET k == Min(Positions(s, c))
       IN  <<SubSeq(s, 1, k - 1)>> \o Split(After(s, k), c)

\* parts.join(c)
RECURSIVE Join(_, _)
Join(parts, c) ==
  IF parts = <<>> THEN <<>>
  ELSE IF Len(parts) = 1 THEN parts[1]
  ELSE parts[1] \o <<c>> \o Join(Tail(parts), c)

\* parts.filter(Boolean)
FilterBoolean(parts) == SelectSeq(parts, LAMBDA s : s # <<>>)

\* the characters whose escapes are decoded
EscapedChars == {" ", "%", "/", ":", "{", "}", "[", "]", "=", "@", "+", "&", "?", "#"}

\* percent-decoding: every %XX that is the escape of a character, the rest as
\* it is (decodeURIComponent, and the decoding of URLSearchParams)
RECURSIVE PercentDecode(_)
PercentDecode(s) ==
  IF s = <<>> THEN <<>>
  ELSE LET hit == {c \in EscapedChars : Len(s) >= 3 /\ SubSeq(s, 1, 3) = EncodeChar(c)}
       IN  IF hit # {}
             THEN <<CHOOSE c \in hit : TRUE>> \o PercentDecode(After(s, 3))
             ELSE <<Head(s)>> \o PercentDecode(Tail(s))

\* the values a parsed parameter map holds: a "string", an "array" of values,
\* and the "function" an inherited property is
ParamValue(kind, val) == [kind |-> kind, val |-> val]

\* new URLSearchParams(init): the (name, value) pairs of the "&"-separated
\* non-empty pieces, split at the first "=", with "+" read as a space and
\* escapes decoded
URLSearchParams(init) ==
  LET query == IF init # <<>> /\ Head(init) = "?" THEN Tail(init) ELSE init
      pieces == FilterBoolean(Split(query, "&"))
      decode(t) == PercentDecode([k \in DOMAIN t |-> IF t[k] = "+" THEN " " ELSE t[k]])
      pair(piece) ==
        IF Positions(piece, "=") = {}
          THEN <<decode(piece), <<>>>>
          ELSE <<decode(SubSeq(piece, 1, Min(Positions(piece, "=")) - 1)),
                 decode(After(piece, Min(Positions(piece, "="))))>>
  IN  [k \in DOMAIN pieces |-> pair(pieces[k])]

\* searchParams.forEach((value, key) => ...): a first value is stored as a
\* string, a later one makes or extends a list; `existing` is params[key],
\* which on the object literal params also finds an inherited property
RECURSIVE CollapseParams(_, _)
CollapseParams(params, pairs) ==
  IF pairs = <<>> THEN params
  ELSE LET key == pairs[1][1]
           value == ParamValue("string", pairs[1][2])
           existing == IF key \in DOMAIN params THEN Some(params[key])
                       ELSE IF key \in DOMAIN ObjectPrototype
                         THEN Some(ParamValue("function", ObjectPrototype[key]))
                       ELSE Undefined
           stored == IF ~existing.defined THEN value
                     ELSE IF existing.val.kind = "array"
                       THEN ParamValue("array", Append(existing.val.val, value))
                     ELSE ParamValue("array", <<existing.val, value>>)
       IN  CollapseParams(MapSet(params, key, stored), Tail(pairs))

\* the decimal digits in order, and the number a string of digits denotes
DigitChars == <<"0","1","2","3","4","5","6","7","8","9">>
RECURSIVE DigitsValue(_)
DigitsValue(ds) ==
  IF ds = <<>> THEN 0
  ELSE 10 * DigitsValue(SubSeq(ds, 1, Len(ds) - 1))
         + (CHOOSE d \in 0..9 : DigitChars[d + 1] = ds[Len(ds)])

AllDigits(s) == s # <<>> /\ \A k \in DOMAIN s : s[k] \in Digits

\* String(n) for a number n >= 0
RECURSIVE NumberToString(_)
NumberToString(n) ==
  IF n < 10 THEN <<DigitChars[n + 1]>>
  ELSE NumberToString(n \div 10) \o <<DigitChars[(n % 10) + 1]>>

\* parseInt(s, 10): leading white space, a sign, then the longest run of
\* digits; NaN (no value) when there is no digit
parseInt(s) ==
  LET Run(sign, run) ==
        IF run = <<>> THEN Undefined
        ELSE Some(IF sign = "-" THEN 0 - DigitsValue(run) ELSE DigitsValue(run))
      Body(sign, body) ==
        LET stops == {k \in DOMAIN body : body[k] \notin Digits}
        IN  Run(sign, SubSeq(body, 1, IF stops = {} THEN Len(body) ELSE Min(stops) - 1))
      Text(text) ==
        LET signed == text # <<>> /\ Head(text) \in {"+", "-"}
        IN  Body(IF signed THEN Head(text) ELSE "", IF signed THEN Tail(text) ELSE text)
      Padded(padded) == Text(SubSeq(padded, 1, Len(padded) - 1))
  IN  Padded(Trim(s \o <<"|">>))

\* The host parser of the URL constructor for an https URL: no host and a
\* forbidden character fail; letters are lower-cased; a host whose last label
\* is a number is an IPv4 address, which fails with an empty or non-numeric
\* part, more than four parts or a part too large, and is written as four
\* bytes otherwise. Numbers are decimal without leading zeros, and a number
\* of ten digits or more counts as too large.
UrlHost(hostText) ==
  LET Address(parts) ==
        LET n == Len(parts)
            last == DigitsValue(parts[n])
            fits(k) == /\ AllDigits(parts[k])
                       /\ Len(parts[k]) <= 9
                       /\ IF k < n THEN DigitsValue(parts[k]) <= 255
                          ELSE n = 1 \/ DigitsValue(parts[k]) < 256 ^ (5 - n)
            bytes == [k \in 1..4 |->
                        IF k < n THEN DigitsValue(parts[k])
                        ELSE (last \div (256 ^ (4 - k))) % 256]
        IN  IF n <= 4 /\ \A k \in 1..n : fits(k)
              THEN Some(Join([k \in 1..4 |-> NumberToString(bytes[k])], "."))
              ELSE Undefined
      Parts(text, parts) ==
        IF AllDigits(parts[Len(parts)]) THEN Address(parts)
        ELSE Some(ToLowerCase(text))
      Labels(text, labels) ==
        Parts(text, IF Len(labels) > 1 /\ labels[Len(labels)] = <<>>
                      THEN SubSeq(labels, 1, Len(labels) - 1)
                      ELSE labels)
      Host(text) ==
        IF \/ text = <<>>
           \/ \E k \in DOMAIN text :
                text[k] \in {" ", "%", "/", ":", "?", "#", "@", "[", "]"}
          THEN Undefined
          ELSE Labels(text, Split(text, "."))
  IN  Host(PercentDecode(hostText))

\* s with the characters of cs replaced by their escapes
RECURSIVE EscapeIn(_, _)
EscapeIn(s, cs) ==
  IF s = <<>> THEN <<>>
  ELSE (IF Head(s) \in cs THEN EncodeChar(Head(s)) ELSE <<Head(s)>>)
         \o EscapeIn(Tail(s), cs)

\* the path segments of an https URL: "." and ".." are resolved (leaving an
\* empty last segment when they come last), the others are escaped and kept
RECURSIVE UrlPathSegments(_, _)
UrlPathSegments(stack, segs) ==
  IF segs = <<>> THEN stack
  ELSE LET s == Head(segs)
           atEnd == IF Len(segs) = 1 THEN << <<>> >> ELSE <<>>
       IN  IF s = <<".", ".">>
             THEN UrlPathSegments(SubSeq(stack, 1, Len(stack) - 1) \o atEnd,
                                  Tail(segs))
           ELSE IF s = <<".">>
             THEN UrlPathSegments(stack \o atEnd, Tail(segs))
           ELSE UrlPathSegments(Append(stack, EscapeIn(s, {" ", "{", "}"})),
                                Tail(segs))

\* new URL(url) for url = "https://" followed by text: undefined when the
\* constructor throws. Slashes before the authority are skipped; the
\* authority ends at the first / ? or #; credentials end at its last "@" and
\* split at their first ":"; the host ends at the first ":" after them, and
\* what follows is the port: digits only, at most 65535, and none when it is
\* the default 443; a fragment is cut off; the query starts at the first "?".
NewURL(url) ==
  LET userinfoSet == {" ", "/", ":", "=", "@", "?", "#", "{", "}", "[", "]"}
      Build(user, pass, host, portText, portDigits, pathText, query) ==
        IF \/ ~host.defined
           \/ ~(\/ portText = <<>>
                \/ /\ AllDigits(portText) /\ Len(portDigits) <= 5
                   /\ DigitsValue(portDigits) <= 65535)
          THEN Undefined
          ELSE Some([username |-> EscapeIn(user, userinfoSet),
                     password |-> EscapeIn(pass, userinfoSet),
                     hostname |-> host.val,
                     port |-> IF portText = <<>> \/ DigitsValue(portDigits) = 443
                                THEN <<>>
                                ELSE NumberToString(DigitsValue(portDigits)),
                     pathname |-> IF pathText = <<>> THEN <<"/">>
                                  ELSE <<"/">> \o Join(UrlPathSegments(<<>>,
                                                         Split(Tail(pathText), "/")), "/"),
                     searchParams |-> URLSearchParams(EscapeIn(query, {" ", "#"}))])
      PathAndQuery(user, pass, hostText, portText, noFragment) ==
        LET nonZero == {k \in DOMAIN portText : portText[k] # "0"}
            marks == Positions(noFragment, "?")
        IN  Build(user, pass, UrlHost(hostText), portText,
                  IF nonZero = {} THEN <<>> ELSE After(portText, Min(nonZero) - 1),
                  IF marks = {} THEN noFragment
                    ELSE SubSeq(noFragment, 1, Min(marks) - 1),
                  IF marks = {} THEN <<>> ELSE After(noFragment, Min(marks)))
      HostAndPort(userinfo, hostport, rest) ==
        LET userColons == Positions(userinfo, ":")
            hostColons == Positions(hostport, ":")
            hashes == Positions(rest, "#")
        IN  PathAndQuery(
              IF userColons = {} THEN userinfo
                ELSE SubSeq(userinfo, 1, Min(userColons) - 1),
              IF userColons = {} THEN <<>> ELSE After(userinfo, Min(userColons)),
              IF hostColons = {} THEN hostport
                ELSE SubSeq(hostport, 1, Min(hostColons) - 1),
              IF hostColons = {} THEN <<>> ELSE After(hostport, Min(hostColons)),
              IF hashes = {} THEN rest ELSE SubSeq(rest, 1, Min(hashes) - 1))
      Authority(authority, rest) ==
        LET ats == Positions(authority, "@")
        IN  HostAndPort(IF ats = {} THEN <<>> ELSE SubSeq(authority, 1, Max(ats) - 1),
                        IF ats = {} THEN authority ELSE After(authority, Max(ats)),
                        rest)
      AfterSlashes(body) ==
        LET stops == {k \in DOMAIN body : body[k] \in {"/", "?", "#"}}
            n == IF stops = {} THEN Len(body) ELSE Min(stops) - 1
        IN  Authority(SubSeq(body, 1, n), After(body, n))
      Input(input) ==
        LET lead == {k \in DOMAIN input : input[k] # "/"}
        IN  AfterSlashes(IF lead = {} THEN <<>> ELSE After(input, Min(lead) - 1))
  IN  Input(SelectSeq(After(url, 8), LAMBDA c : c \notin {"\t", "\n"}))


\* a value handed to parseFSUrl: of type "string", or of another type
JsValue(type, val) == [type |-> type, val |-> val]

\* the outcome of a call: a returned value, or a thrown error
Returned(v) == [threw |-> FALSE, val |-> v]
Thrown(e) == [threw |-> TRUE, val |-> e]

\* new FSParseError(message, raw)
FSParseError(message) == Err("FSParseError", message, <<>>)

\* decodeURIComponent(s) on a non-empty s, undefined on an empty one; a "%"
\* that starts no escape makes it throw a URIError
DecodeIfAny(s) ==
  IF s = <<>> THEN Returned(Undefined)
  ELSE IF \E k \in DOMAIN s :
            /\ s[k] = "%"
            /\ ~\E c \in EscapedChars :
                   k + 2 <= Len(s) /\ SubSeq(s, k, k + 2) = EncodeChar(c)
    THEN Thrown(Err("URIError", "URI malformed", <<>>))
  ELSE Returned(Some(PercentDecode(s)))

\* trimmed.match(/^([a-zA-Z][a-zA-Z0-9+.-]*):\/\//): the length of the match,
\* 0 when there is none
SchemaMatch(trimmed) ==
  LET stops == {k \in DOMAIN trimmed : ~IsSchemeChar(trimmed[k])}
      q == Min(stops)
  IN  IF /\ trimmed # <<>> /\ IsAlpha(trimmed[1])
         /\ stops # {}
         /\ q + 2 <= Len(trimmed)
         /\ SubSeq(trimmed, q, q + 2) = <<":", "/", "/">>
        THEN q + 2
        ELSE 0

\* the catch block of parseFSUrl: manual parsing of what follows the schema
ManualParse(afterSchema) ==
  LET Query(queryPart) ==
        IF queryPart # <<>>
          THEN CollapseParams(EmptyMap, URLSearchParams(queryPart))
          ELSE EmptyMap
      WithPort(firstSegment, colonIndex, parsedPort, digitsOnly) ==
        LET portFound == colonIndex # 0 /\ parsedPort.defined /\ digitsOnly
        IN  [username |-> Returned(Undefined),
             password |-> Returned(Undefined),
             hostname |-> IF portFound
                            THEN Some(SubSeq(firstSegment, 1, colonIndex - 1))
                            ELSE Some(firstSegment),
             port |-> IF portFound THEN parsedPort ELSE Undefined]
      HostOnly(firstSegment, colonIndex) ==
        WithPort(firstSegment, colonIndex,
                 parseInt(After(firstSegment, colonIndex)),
                 AllDigits(After(firstSegment, colonIndex)))
      WithAuth(authPart, hostPart) ==
        LET userPass == Split(authPart, ":")
            hostPort == Split(hostPart, ":")
        IN  [username |-> IF Len(userPass) >= 2 THEN DecodeIfAny(userPass[1])
                          ELSE DecodeIfAny(authPart),
             password |-> IF Len(userPass) >= 2 THEN DecodeIfAny(userPass[2])
                          ELSE Returned(Undefined),
             hostname |-> Some(IF Len(hostPort) >= 2 THEN hostPort[1] ELSE hostPart),
             port |-> IF Len(hostPort) >= 2 THEN parseInt(hostPort[2]) ELSE Undefined]
      FirstSegment(firstSegment) ==
        IF Positions(firstSegment, "@") # {}
          THEN WithAuth(Split(firstSegment, "@")[1], Split(firstSegment, "@")[2])
          ELSE HostOnly(firstSegment,
                        IF Positions(firstSegment, ":") = {} THEN 0
                        ELSE Max(Positions(firstSegment, ":")))
      PathAndQuery(pathSegments, queryPart) ==
        FirstSegment(pathSegments[1])
          @@ [pathWithoutSlash |-> Join(Tail(pathSegments), "/"),
              params |-> Query(queryPart)]
      Pieces(pieces) ==
        PathAndQuery(Split(pieces[1], "/"),
                     IF Len(pieces) >= 2 THEN pieces[2] ELSE <<>>)
  IN  Pieces(Split(afterSchema, "?"))

\* the `if (parsed)` block of parseFSUrl: the fields taken from the URL object
StrictParse(parsed) ==
  [username |-> DecodeIfAny(parsed.username),
   password |-> DecodeIfAny(parsed.password),
   hostname |-> IF parsed.hostname # <<>> THEN Some(parsed.hostname) ELSE Undefined,
   port |-> IF parsed.port # <<>> THEN parseInt(parsed.port) ELSE Undefined,
   pathWithoutSlash |-> Tail(parsed.pathname),
   params |-> CollapseParams(EmptyMap, parsed.searchParams)]

\* faulty variant: the path is split without dropping the empty segments
SegmentsUnfiltered(pathWithoutSlash) == Split(pathWithoutSlash, "/")

\* pathWithoutSlash.split('/').filter(Boolean)
Segments(pathWithoutSlash) == FilterBoolean(Split(pathWithoutSlash, "/"))

\* faulty variant: a schema followed by ":" is enough, as in extractSchema
SchemaGuardLoose(raw) ==
  raw.type = "string" /\ extractSchema(Trim(raw.val)) # <<>>

\* the two tests of parseFSUrl that throw an FSParseError: raw is a non-empty
\* string, and the trimmed raw starts with a schema and "://"
SchemaGuard(raw) ==
  /\ raw.type = "string" /\ raw.val # <<>>
  /\ SchemaMatch(Trim(raw.val)) # 0

\* parseFSUrl(raw)
parseFSUrl(raw) ==
  IF ~SchemaGuard(raw)
    THEN Thrown(FSParseError(IF raw.type = "string" /\ raw.val # <<>>
                               THEN "Invalid URL format: missing schema"
                               ELSE "URL must be a non-empty string"))
  ELSE
    LET Finish(schema, trimmed, parts) ==
          IF parts.username.threw THEN parts.username
          ELSE IF parts.password.threw THEN parts.password
          ELSE Returned([schema |-> schema,
                         hostname |-> parts.hostname,
                         port |-> parts.port,
                         username |-> parts.username.val,
                         password |-> parts.password.val,
                         path |-> IF parts.pathWithoutSlash # <<>>
                                    THEN Some(parts.pathWithoutSlash)
                                    ELSE Undefined,
                         segments |-> Segments(parts.pathWithoutSlash),
                         params |-> parts.params,
                         raw |-> trimmed])
        Parsed(schema, trimmed, afterSchema, parsed) ==
          Finish(schema, trimmed,
                 IF parsed.defined THEN StrictParse(parsed.val)
                 ELSE ManualParse(afterSchema))
        Matched(trimmed, matched) ==
          Parsed(ToLowerCase(SubSeq(trimmed, 1, matched - 3)), trimmed,
                 After(trimmed, matched),
                 NewURL(<<"h","t","t","p","s",":","/","/">> \o After(trimmed, matched)))
    IN  Matched(Trim(raw.val), SchemaMatch(Trim(raw.val)))

(***************************************************************************)
(* The inputs the model draws from.                                        *)
(***************************************************************************)
UrlPlain == <<"x",":","/","/","h">>
UrlParam == <<"{","s","}",":","/","/","h">>
UrlOther == <<"z",":","/","/","h">>
UrlBlank == <<" ">>
UrlPool == {UrlPlain, UrlParam, UrlOther}

\* what add() is called with: one URL, or a list of URLs
AddInputs ==
  {<<u>> : u \in UrlPool} \cup {<<UrlBlank>>, <<UrlBlank, <<" ">> \o UrlPlain>>}

TagA == <<"a">>
TagB == <<"b">>
TagUpperA == <<"A">>
TagUpperB == <<"B">>
EntryTagPool == {<<>>, <<TagA>>, <<TagB, TagUpperA>>}
FilterTagPool == {Undefined, Some(<<>>), Some(<<TagA>>), Some(<<TagUpperB>>)}
\* fallbackTags that name no tag, and fallbackTags that name some
NoFallbackTagPool == {Undefined, Some(<<>>)}
FallbackTagPool == {Some(<<TagA>>), Some(<<TagUpperA, TagB>>)}

KeyS == <<"s">>
ParamsPool == {EmptyMap, KeyS :> <<"X">>}

BodyPool == {<<" ">>, <<"m">>}

ProviderX == [id |-> <<"p","x">>, schemas |-> << <<"X">> >>]
ProviderPool == {<<ProviderX>>}

\* onError of the constructor options: absent, or a combination of callback,
\* message formatter and fallbackTags (a formatter comes with fallback tags:
\* it is never looked at without them)
OnErrorPool ==
  {[defined |-> FALSE, callback |-> FALSE, message |-> FALSE,
    fallbackTags |-> Undefined]}
  \cup
  {[defined |-> TRUE, callback |-> cb, message |-> FALSE, fallbackTags |-> ft] :
     cb \in BOOLEAN, ft \in NoFallbackTagPool}
  \cup
  {[defined |-> TRUE, callback |-> cb, message |-> fmt, fallbackTags |-> ft] :
     cb \in BOOLEAN, fmt \in BOOLEAN, ft \in FallbackTagPool}

\* what a provider's parseUrl or send may throw or reject with: an Error
Throwables == {Err("Error", "Provider threw", <<>>)}
\* what a callback or a message formatter may throw: a value that is no Error
HandlerThrowables == {Err("string", "rejected", <<>>)}
\* the error a provider reports in a failure result
ReportedErrors == {Err("FSProviderError", "HTTP 500", <<>>)}

(***************************************************************************)
(* The state.                                                              *)
(***************************************************************************)
VARIABLES
  entries,        \* this.entries: the destination store
  providers,      \* this.providers: lower-cased schema -> provider
  onErrorConfig,  \* this.onErrorConfig
  pc,             \* where the send() call stands
  message,        \* send(): message
  options,        \* send(): options {tags, params}
  urls,           \* send(): urls
  i,              \* send(): index in urls of the destination being processed
  results,        \* send(): results
  processedUrl,   \* send(): processedUrl of the current destination
  provider,       \* send(): provider of the current destination
  hError,         \* handleError(): error
  hSite,          \* which call of handleError is running: "try" or "catch"
  fbMessage,      \* sendInternal(): message
  fbTags,         \* sendInternal(): options.tags (safeTags)
  fbUrls,         \* sendInternal(): urls
  j,              \* sendInternal(): index in fbUrls
  fbUrl,          \* sendInternal(): processedUrl
  fbProvider,     \* sendInternal(): provider
  fbResults,      \* sendInternal(): results
  inflight,       \* number of provider.send() calls started and not settled
  sendCalls,      \* number of provider.send() calls made since send() was called
  depth,          \* number of handleError() calls entered and not left
  cbCalls,        \* number of invocations of the callback in this send()
  rejection,      \* the error send() rejected with, if it did
  registered,     \* the providers registerProvider() was called with, in order
  fnCall,         \* the function called on its own, with its arguments
  fnReturn        \* what that call returned or threw

storeVars == <<entries, providers, onErrorConfig>>
callVars == <<message, options, urls>>
loopVars == <<i, results, processedUrl, provider>>
handlerVars == <<hError, hSite, depth, cbCalls>>
internalVars == <<fbMessage, fbTags, fbUrls, j, fbUrl, fbProvider, fbResults>>
otherVars == <<registered, fnCall, fnReturn>>
vars == <<storeVars, callVars, loopVars, handlerVars, internalVars, pc,
          inflight, sendCalls, rejection, otherVars>>

\* no function has been called on its own
NoCall == [fn |-> "none"]
NoReturn == [threw |-> FALSE, val |-> <<>>]

NoProvider == [id |-> <<>>, schemas |-> <<>>]
NoMessage == [title |-> "", body |-> <<>>]
NoOptions == [tags |-> Undefined, params |-> EmptyMap]

\* the locals of send(), handleError() and sendInternal() before a call
Idle ==
  /\ pc = "idle"
  /\ message = NoMessage /\ options = NoOptions /\ urls = <<>>
  /\ i = 0 /\ results = <<>> /\ processedUrl = <<>> /\ provider = NoProvider
  /\ hError = NoError /\ hSite = "none" /\ depth = 0 /\ cbCalls = 0
  /\ fbMessage = NoMessage /\ fbTags = <<>> /\ fbUrls = <<>> /\ j = 0
  /\ fbUrl = <<>> /\ fbProvider = NoProvider /\ fbResults = <<>>
  /\ inflight = 0 /\ sendCalls = 0 /\ rejection = NoError

\* new FireSignal({providers, onError, skipDefaultProviders: true})
Init ==
  /\ entries = <<>>
  /\ \E ps \in ProviderPool :
       /\ providers = RegisterAll(EmptyMap, ps)
       /\ registered = ps
  /\ onErrorConfig \in OnErrorPool
  /\ Idle
  /\ fnCall = NoCall /\ fnReturn = NoReturn

(***************************************************************************)
(* add(urlOrUrls, tags)                                                    *)
(***************************************************************************)
\* faulty variant: the URL is stored as given, with its surrounding white space
RECURSIVE AddFromUntrimmed(_, _, _)
AddFromUntrimmed(es, addUrls, tags) ==
  IF addUrls = <<>> THEN es
  ELSE LET url == Head(addUrls)
       IN  AddFromUntrimmed(IF Trim(url) # <<>>
                              THEN Append(es, [url |-> url, tags |-> tags])
                              ELSE es,
                            Tail(addUrls), tags)

RECURSIVE AddFrom(_, _, _)
AddFrom(es, addUrls, tags) ==
  IF addUrls = <<>> THEN es
  ELSE LET url == Head(addUrls)
       IN  AddFrom(IF Trim(url) # <<>>
                     THEN Append(es, [url |-> Trim(url), tags |-> tags])
                     ELSE es,
                   Tail(addUrls), tags)

Add(addUrls, tags) ==
  /\ pc = "idle"
  /\ Len(AddFrom(entries, addUrls, tags)) <= MaxEntries
  /\ entries' = AddFrom(entries, addUrls, tags)
  /\ UNCHANGED <<otherVars, providers, onErrorConfig, callVars, loopVars, handlerVars,
                 internalVars, pc, inflight, sendCalls, rejection>>

(***************************************************************************)
(* send(message, options): the steps between two awaits                    *)
(***************************************************************************)
\* the locals of handleError() and sendInternal() once they have returned
HandlerLocalsGone ==
  /\ hError' = NoError /\ hSite' = "none"
  /\ fbMessage' = NoMessage /\ fbTags' = <<>> /\ fbUrls' = <<>> /\ j' = 0
  /\ fbUrl' = <<>> /\ fbProvider' = NoProvider /\ fbResults' = <<>>

\* `continue`, or the end of the loop body: on to the next URL with the
\* results res
NextUrl(res) ==
  /\ results' = res
  /\ i' = i + 1
  /\ processedUrl' = <<>> /\ provider' = NoProvider
  /\ pc' = "loop"

\* the beginning of send(): filter, and return at once when nothing is selected
Send(msg, opts) ==
  /\ pc = "idle"
  /\ message' = msg /\ options' = opts
  /\ urls' = filterByTags(entries, opts.tags)
  /\ results' = <<>>
  /\ IF Len(urls') = 0
       THEN pc' = "done" /\ i' = 0
       ELSE pc' = "loop" /\ i' = 1
  /\ UNCHANGED <<otherVars, storeVars, processedUrl, provider, handlerVars, internalVars,
                 inflight, sendCalls, rejection>>

\* the for loop is exhausted: return results
Finish ==
  /\ pc = "loop" /\ i > Len(urls)
  /\ pc' = "done"
  /\ UNCHANGED <<otherVars, storeVars, callVars, loopVars, handlerVars, internalVars,
                 inflight, sendCalls, rejection>>

\* faulty variant: a failed substitution ends the batch instead of continuing
SubstituteFailsBreaks ==
  /\ pc = "loop" /\ i <= Len(urls)
  /\ LET r == replacePlaceholders(urls[i], options.params)
     IN  /\ ~r.ok
         /\ results' = Append(results,
                              Result(FALSE, UnknownId, MissingParamError(r.key)))
  /\ pc' = "done"
  /\ UNCHANGED <<otherVars, storeVars, callVars, i, processedUrl, provider, handlerVars,
                 internalVars, inflight, sendCalls, rejection>>

\* replacePlaceholders throws: a Failed result of provider 'unknown'
SubstituteFails ==
  /\ pc = "loop" /\ i <= Len(urls)
  /\ LET r == replacePlaceholders(urls[i], options.params)
     IN  /\ ~r.ok
         /\ NextUrl(Append(results,
                           Result(FALSE, UnknownId, MissingParamError(r.key))))
  /\ UNCHANGED <<otherVars, storeVars, callVars, handlerVars, internalVars, inflight, sendCalls,
                 rejection>>

\* faulty variant: an unresolved schema is skipped without a result, as
\* sendInternal() does
ProviderMissingSkips ==
  /\ pc = "loop" /\ i <= Len(urls)
  /\ LET r == replacePlaceholders(urls[i], options.params)
     IN  r.ok /\ extractSchema(r.url) \notin DOMAIN providers
  /\ NextUrl(results)
  /\ UNCHANGED <<otherVars, storeVars, callVars, handlerVars, internalVars, inflight, sendCalls,
                 rejection>>

\* no provider for the schema of the substituted URL
ProviderMissing ==
  /\ pc = "loop" /\ i <= Len(urls)
  /\ \E r \in {replacePlaceholders(urls[i], options.params)} :
     \E schema \in {extractSchema(r.url)} :
         /\ r.ok
         /\ schema \notin DOMAIN providers
         /\ NextUrl(Append(results,
                           Result(FALSE,
                                  IF schema # <<>> THEN schema ELSE UnknownId,
                                  FSProviderNotFoundError(schema))))
  /\ UNCHANGED <<otherVars, storeVars, callVars, handlerVars, internalVars, inflight, sendCalls,
                 rejection>>

\* handleError(err, context) is called at site (the try block or the catch
\* block of send()) for the provider prov and the URL url, with the results
\* res, d calls of it being open: it returns at once without a configuration,
\* awaits the callback if there is one, and goes on to the fallback otherwise
EnterHandler(res, prov, url, err, site, d) ==
  IF ~onErrorConfig.defined
    THEN /\ NextUrl(res)
         /\ depth' = d
         /\ HandlerLocalsGone
         /\ UNCHANGED <<cbCalls, rejection>>
    ELSE /\ results' = res
         /\ processedUrl' = url /\ provider' = prov
         /\ hError' = err /\ hSite' = site
         /\ depth' = d + 1
         /\ IF onErrorConfig.callback
              THEN pc' = "callback" /\ cbCalls' = cbCalls + 1
              ELSE pc' = "fallback" /\ cbCalls' = cbCalls
         /\ UNCHANGED <<i, fbMessage, fbTags, fbUrls, j, fbUrl, fbProvider,
                        fbResults, rejection>>

\* the catch block of send(): a Failed result of the provider, then the handler
Catch(res, prov, url, thrown, d) ==
  EnterHandler(Append(res, Result(FALSE, prov.id, ToError(thrown))),
               prov, url, ToError(thrown), "catch", d)

\* provider.parseUrl(processedUrl) throws
ParseUrlThrows ==
  /\ pc = "loop" /\ i <= Len(urls)
  /\ \E r \in {replacePlaceholders(urls[i], options.params)} :
     \E schema \in {extractSchema(r.url)} :
         /\ r.ok
         /\ schema \in DOMAIN providers
         /\ \E thrown \in Throwables :
              Catch(results, providers[schema], r.url, thrown, depth)
  /\ UNCHANGED <<otherVars, storeVars, callVars, inflight, sendCalls>>

\* faulty variant: send() does not await provider.send(): it goes on to the next URL
ProviderSendNotAwaited ==
  /\ pc' = "loop"
  /\ i' = i + 1
  /\ UNCHANGED results

\* where send() stands once provider.send() has been called: at the await
AwaitProviderSend ==
  /\ pc' = "sending"
  /\ UNCHANGED <<i, results>>

\* the context send() hands to provider.send()
ProviderContext == [url |-> processedUrl, tags |-> options.tags]

\* the context send() hands to handleError()
ErrorContext ==
  [providerId |-> provider.id, url |-> processedUrl, message |-> message,
   tags |-> options.tags]

\* faulty variant: the provider is handed the URL as stored, placeholders and all
ProviderSendStartRawUrl ==
  /\ pc = "loop" /\ i <= Len(urls)
  /\ \E r \in {replacePlaceholders(urls[i], options.params)} :
     \E schema \in {extractSchema(r.url)} :
         /\ r.ok
         /\ schema \in DOMAIN providers
         /\ processedUrl' = urls[i]
         /\ provider' = providers[schema]
  /\ inflight' = inflight + 1 /\ sendCalls' = sendCalls + 1
  /\ AwaitProviderSend
  /\ UNCHANGED <<otherVars, storeVars, callVars, handlerVars, internalVars, rejection>>

\* provider.parseUrl succeeds and provider.send(message, ctx) is called
ProviderSendStart ==
  /\ pc = "loop" /\ i <= Len(urls)
  /\ \E r \in {replacePlaceholders(urls[i], options.params)} :
     \E schema \in {extractSchema(r.url)} :
         /\ r.ok
         /\ schema \in DOMAIN providers
         /\ processedUrl' = r.url
         /\ provider' = providers[schema]
  /\ inflight' = inflight + 1 /\ sendCalls' = sendCalls + 1
  /\ AwaitProviderSend
  /\ UNCHANGED <<otherVars, storeVars, callVars, handlerVars, internalVars, rejection>>

\* provider.send() resolves with a success result
ProviderSucceeds ==
  /\ pc = "sending"
  /\ inflight' = inflight - 1 /\ UNCHANGED sendCalls
  /\ NextUrl(Append(results, Result(TRUE, provider.id, NoError)))
  /\ UNCHANGED <<otherVars, storeVars, callVars, handlerVars, internalVars, rejection>>

\* provider.send() resolves with a failure result: push it, call the handler
ProviderFails ==
  /\ pc = "sending"
  /\ inflight' = inflight - 1 /\ UNCHANGED sendCalls
  /\ \E e \in ReportedErrors :
       EnterHandler(Append(results, Result(FALSE, provider.id, e)),
                    provider, processedUrl,
                    IF e = NoError THEN UnknownError ELSE e, "try", depth)
  /\ UNCHANGED <<otherVars, storeVars, callVars>>

\* provider.send() throws or rejects
ProviderThrows ==
  /\ pc = "sending"
  /\ inflight' = inflight - 1 /\ UNCHANGED sendCalls
  /\ \E thrown \in Throwables :
       Catch(results, provider, processedUrl, thrown, depth)
  /\ UNCHANGED <<otherVars, storeVars, callVars>>

(***************************************************************************)
(* handleError(error, context)                                             *)
(***************************************************************************)
\* await callback(error, context) returns
CallbackReturns ==
  /\ pc = "callback"
  /\ pc' = "fallback"
  /\ UNCHANGED <<otherVars, storeVars, callVars, loopVars, handlerVars, internalVars,
                 inflight, sendCalls, rejection>>

\* faulty variant: what the callback throws leaves handleError(), and the
\* fallback is not dispatched
CallbackThrowsSkipsFallback ==
  /\ pc = "callback"
  /\ depth' = depth - 1
  /\ HandlerLocalsGone
  /\ NextUrl(results)
  /\ UNCHANGED <<otherVars, storeVars, callVars, cbCalls, inflight, sendCalls,
                 rejection>>

\* await callback(error, context) throws or rejects: caught and logged
CallbackThrows ==
  /\ pc = "callback"
  /\ \E thrown \in HandlerThrowables : pc' = "fallback"
  /\ UNCHANGED <<otherVars, storeVars, callVars, loopVars, handlerVars, internalVars,
                 inflight, sendCalls, rejection>>

\* faulty variant: the fallback tags are used as configured
SafeTagsUnfiltered(fallbackTags, contextTags) == fallbackTags

\* fallbackTags.filter((t) => !context.tags?.includes(t))
SafeTags(fallbackTags, contextTags) ==
  LET safe(t) == ~(contextTags.defined /\ t \in Range(contextTags.val))
  IN  SelectSeq(fallbackTags, safe)

\* the fallback tags of this handler call that are safe, <<>> when
\* fallbackTags is absent or empty
CurrentSafeTags ==
  IF onErrorConfig.fallbackTags.defined /\ Len(onErrorConfig.fallbackTags.val) > 0
    THEN SafeTags(onErrorConfig.fallbackTags.val, ErrorContext.tags)
    ELSE <<>>

\* handleError() returns to send(), which goes on to the next URL
LeaveHandler ==
  /\ depth' = depth - 1
  /\ HandlerLocalsGone
  /\ NextUrl(results)
  /\ UNCHANGED <<cbCalls, rejection>>

\* no fallbackTags, or no safe tag: nothing more to do
HandlerSkipsFallback ==
  /\ pc = "fallback"
  /\ Len(CurrentSafeTags) = 0
  /\ LeaveHandler
  /\ UNCHANGED <<otherVars, storeVars, callVars, inflight, sendCalls>>

\* messageFn(error, context) throws: nothing in handleError() catches it.
\* Thrown into the try block of send() it reaches the catch block, which
\* pushes a result and calls handleError() again; thrown into the catch
\* block it leaves send().
FormatterThrows ==
  /\ pc = "fallback"
  /\ Len(CurrentSafeTags) > 0
  /\ onErrorConfig.message
  /\ \E thrown \in HandlerThrowables :
       IF hSite = "try"
         THEN Catch(results, provider, processedUrl, thrown, depth - 1)
         ELSE /\ pc' = "rejected"
              /\ rejection' = thrown
              /\ depth' = depth - 1
              /\ HandlerLocalsGone
              /\ UNCHANGED <<loopVars, cbCalls>>
  /\ UNCHANGED <<otherVars, storeVars, callVars, inflight, sendCalls>>

\* the body of the fallback message: the formatter's text, or the default
CustomBody == <<"c">>
DefaultBody(providerId, error) ==
  <<"Notification failed: ", "[">> \o providerId \o <<"]", " ", error.msg>>

\* the fallback message is built and sendInternal(message, {tags: safeTags})
\* is called: it filters the store by the safe tags
FallbackDispatch ==
  /\ pc = "fallback"
  /\ Len(CurrentSafeTags) > 0
  /\ fbMessage' = [title |-> "Fire-Signal Error",
                   body |-> IF onErrorConfig.message
                              THEN CustomBody
                              ELSE DefaultBody(provider.id, hError)]
  /\ fbTags' = CurrentSafeTags
  /\ fbUrls' = filterByTags(entries, Some(CurrentSafeTags))
  /\ fbResults' = <<>>
  /\ j' = 1
  /\ pc' = "fb_loop"
  /\ UNCHANGED <<otherVars, storeVars, callVars, loopVars, handlerVars, fbUrl, fbProvider,
                 inflight, sendCalls, rejection>>

(***************************************************************************)
(* sendInternal(message, {tags: safeTags})                                 *)
(***************************************************************************)
\* on to the next URL of sendInternal() with the results res
InternalNext(res) ==
  /\ fbResults' = res
  /\ j' = j + 1
  /\ fbUrl' = <<>> /\ fbProvider' = NoProvider
  /\ pc' = "fb_loop"

\* faulty variant: a failure inside sendInternal() calls the error handler, as a
\* failure inside send() does
InternalFailedCallsHandler(res) ==
  /\ fbResults' = res
  /\ UNCHANGED <<j, fbUrl, fbProvider, hError, hSite>>
  /\ depth' = depth + 1
  /\ IF onErrorConfig.callback
       THEN pc' = "callback" /\ cbCalls' = cbCalls + 1
       ELSE pc' = "fallback" /\ cbCalls' = cbCalls

\* a failure inside sendInternal() is recorded in its results and nothing
\* else happens: no handler is called
InternalFailed(res) ==
  /\ InternalNext(res)
  /\ UNCHANGED handlerVars

\* its for loop is exhausted: sendInternal() returns, handleError() logs the
\* results and returns
InternalFinish ==
  /\ pc = "fb_loop" /\ j > Len(fbUrls)
  /\ LeaveHandler
  /\ UNCHANGED <<otherVars, storeVars, callVars, inflight, sendCalls>>

\* replacePlaceholders(rawUrl, undefined) throws, or no provider: `continue`
InternalSkip ==
  /\ pc = "fb_loop" /\ j <= Len(fbUrls)
  /\ \E r \in {replacePlaceholders(fbUrls[j], EmptyMap)} :
         \/ ~r.ok
         \/ r.ok /\ extractSchema(r.url) \notin DOMAIN providers
  /\ InternalNext(fbResults)
  /\ UNCHANGED <<otherVars, storeVars, callVars, loopVars, handlerVars, fbMessage, fbTags,
                 fbUrls, inflight, sendCalls, rejection>>

\* provider.parseUrl throws inside sendInternal()
InternalParseUrlThrows ==
  /\ pc = "fb_loop" /\ j <= Len(fbUrls)
  /\ \E r \in {replacePlaceholders(fbUrls[j], EmptyMap)} :
     \E schema \in {extractSchema(r.url)} :
         /\ r.ok
         /\ schema \in DOMAIN providers
         /\ \E thrown \in Throwables :
              InternalFailed(Append(fbResults,
                                    Result(FALSE, providers[schema].id,
                                           ToError(thrown))))
  /\ UNCHANGED <<otherVars, storeVars, callVars, loopVars, fbMessage, fbTags, fbUrls,
                 inflight, sendCalls, rejection>>

\* provider.send(fallback message, ctx) is called and awaited
InternalSendStart ==
  /\ pc = "fb_loop" /\ j <= Len(fbUrls)
  /\ \E r \in {replacePlaceholders(fbUrls[j], EmptyMap)} :
     \E schema \in {extractSchema(r.url)} :
         /\ r.ok
         /\ schema \in DOMAIN providers
         /\ fbUrl' = r.url
         /\ fbProvider' = providers[schema]
  /\ inflight' = inflight + 1 /\ sendCalls' = sendCalls + 1
  /\ pc' = "fb_sending"
  /\ UNCHANGED <<otherVars, storeVars, callVars, loopVars, handlerVars, fbMessage, fbTags,
                 fbUrls, j, fbResults, rejection>>

\* the provider resolves with a success result
InternalProviderSucceeds ==
  /\ pc = "fb_sending"
  /\ inflight' = inflight - 1 /\ UNCHANGED sendCalls
  /\ InternalNext(Append(fbResults, Result(TRUE, fbProvider.id, NoError)))
  /\ UNCHANGED <<otherVars, storeVars, callVars, loopVars, handlerVars, fbMessage, fbTags,
                 fbUrls, rejection>>

\* the provider resolves with a failure result
InternalProviderFails ==
  /\ pc = "fb_sending"
  /\ inflight' = inflight - 1 /\ UNCHANGED sendCalls
  /\ \E e \in ReportedErrors :
       InternalFailed(Append(fbResults, Result(FALSE, fbProvider.id, e)))
  /\ UNCHANGED <<otherVars, storeVars, callVars, loopVars, fbMessage, fbTags, fbUrls,
                 rejection>>

\* the provider throws or rejects
InternalProviderThrows ==
  /\ pc = "fb_sending"
  /\ inflight' = inflight - 1 /\ UNCHANGED sendCalls
  /\ \E thrown \in Throwables :
       InternalFailed(Append(fbResults,
                             Result(FALSE, fbProvider.id, ToError(thrown))))
  /\ UNCHANGED <<otherVars, storeVars, callVars, loopVars, fbMessage, fbTags, fbUrls,
                 rejection>>

(***************************************************************************)
(* The caller                                                              *)
(***************************************************************************)
\* the promise of send() has settled and the caller has looked at it: the
\* locals of the call are gone, the router is ready for the next call
Settle ==
  /\ pc \in {"done", "rejected"}
  /\ pc' = "idle"
  /\ message' = NoMessage /\ options' = NoOptions /\ urls' = <<>>
  /\ i' = 0 /\ results' = <<>> /\ processedUrl' = <<>> /\ provider' = NoProvider
  /\ depth' = 0 /\ cbCalls' = 0
  /\ HandlerLocalsGone
  /\ inflight' = 0 /\ sendCalls' = 0 /\ rejection' = NoError
  /\ UNCHANGED <<otherVars, storeVars>>

Next ==
  \/ \E addUrls \in AddInputs, tags \in EntryTagPool : Add(addUrls, tags)
  \/ \E body \in BodyPool, tags \in FilterTagPool, params \in ParamsPool :
       Send([title |-> "t", body |-> body], [tags |-> tags, params |-> params])
  \/ Finish
  \/ SubstituteFails
  \/ ProviderMissing
  \/ ParseUrlThrows
  \/ ProviderSendStart
  \/ ProviderSucceeds
  \/ ProviderFails
  \/ ProviderThrows
  \/ CallbackReturns
  \/ CallbackThrows
  \/ HandlerSkipsFallback
  \/ FormatterThrows
  \/ FallbackDispatch
  \/ InternalFinish
  \/ InternalSkip
  \/ InternalParseUrlThrows
  \/ InternalSendStart
  \/ InternalProviderSucceeds
  \/ InternalProviderFails
  \/ InternalProviderThrows
  \/ Settle

Spec == Init /\ [][Next]_vars

(***************************************************************************)
(* The router with a destination whose placeholder bears the name of a     *)
(* property every params object inherits.                                  *)
(***************************************************************************)
\* x://h/{valueOf}
UrlInherited == <<"x",":","/","/","h","/","{">> \o KeyValueOf \o <<"}">>

\* new FireSignal({providers, onError, skipDefaultProviders: true}), then
\* add(UrlInherited, [TagA])
InheritedKeyInit ==
  /\ entries = <<[url |-> UrlInherited, tags |-> <<TagA>>]>>
  /\ \E ps \in ProviderPool :
       /\ providers = RegisterAll(EmptyMap, ps)
       /\ registered = ps
  /\ onErrorConfig \in OnErrorPool
  /\ Idle
  /\ fnCall = NoCall /\ fnReturn = NoReturn

InheritedKeySpec == InheritedKeyInit /\ [][Next]_vars

(***************************************************************************)
(* The provider registry on its own: the constructor, then any sequence of *)
(* registerProvider() and getProvider() calls on an idle router.           *)
(***************************************************************************)
\* the largest number of registerProvider() calls on one router, those of the
\* constructor included
MaxRegistrations == 4

SchemaJson == <<"j","s","o","n">>
SchemaJsons == <<"j","s","o","n","s">>

\* createDefaultProviders(): two of the built-in providers
JsonWebhookProvider == [id |-> SchemaJson, schemas |-> <<SchemaJson, SchemaJsons>>]
SlackWebhookProvider ==
  [id |-> <<"s","l","a","c","k">>, schemas |-> << <<"s","l","a","c","k">> >>]
createDefaultProviders == <<JsonWebhookProvider, SlackWebhookProvider>>

\* custom providers: one declaring a built-in schema in upper case and a
\* schema of its own, one declaring that schema too
CustomA == [id |-> <<"c","a">>, schemas |-> << <<"J","S","O","N">>, <<"y">> >>]
CustomB == [id |-> <<"c","b">>, schemas |-> << <<"Y">>, <<"z">> >>]
CustomProviders == {CustomA, CustomB, ProviderX}
\* options.providers of the constructor
OptionsProviderPool == {<<>>, <<CustomA>>, <<CustomB, CustomA>>, <<ProviderX>>}

\* the schemas getProvider() is asked for
SchemaQueryPool ==
  {SchemaJson, <<"J","s","o","n">>, <<"J","S","O","N">>, SchemaJsons,
   <<"S","L","A","C","K">>, <<"y">>, <<"Y">>, <<"z">>, <<"x">>, <<"q">>}

\* the constructor: the built-ins unless skipDefaultProviders, then
\* options.providers, each through registerProvider()
ConstructorProviders(skipDefaultProviders, ps) ==
  RegisterAll(IF skipDefaultProviders
                THEN EmptyMap
                ELSE RegisterAll(EmptyMap, createDefaultProviders),
              ps)

\* new FireSignal({skipDefaultProviders, providers})
RegistryInit ==
  /\ entries = <<>>
  /\ onErrorConfig = [defined |-> FALSE, callback |-> FALSE, message |-> FALSE,
                      fallbackTags |-> Undefined]
  /\ \E skip \in BOOLEAN, ps \in OptionsProviderPool :
       /\ providers = ConstructorProviders(skip, ps)
       /\ registered = (IF skip THEN <<>> ELSE createDefaultProviders) \o ps
  /\ Idle
  /\ fnCall = NoCall /\ fnReturn = NoReturn

\* registerProvider(provider) on the idle router
RegisterProvider(p) ==
  /\ pc = "idle"
  /\ Len(registered) < MaxRegistrations
  /\ providers' = registerProvider(providers, p)
  /\ registered' = Append(registered, p)
  /\ fnCall' = NoCall /\ fnReturn' = NoReturn
  /\ UNCHANGED <<entries, onErrorConfig, callVars, loopVars, handlerVars,
                 internalVars, pc, inflight, sendCalls, rejection>>

\* getProvider(schema) on the idle router
GetProvider(schema) ==
  /\ pc = "idle"
  /\ fnCall' = [fn |-> "getProvider", schema |-> schema]
  /\ fnReturn' = [threw |-> FALSE, val |-> getProvider(providers, schema)]
  /\ UNCHANGED <<storeVars, registered, callVars, loopVars, handlerVars,
                 internalVars, pc, inflight, sendCalls, rejection>>

RegistryNext ==
  \/ \E p \in CustomProviders : RegisterProvider(p)
  \/ \E schema \in SchemaQueryPool : GetProvider(schema)

RegistrySpec == RegistryInit /\ [][RegistryNext]_vars

(***************************************************************************)
(* The placeholder substitutor on its own.                                 *)
(***************************************************************************)
\* the variables of the router, which a function called on its own leaves alone
routerVars == <<storeVars, callVars, loopVars, handlerVars, internalVars, pc,
                inflight, sendCalls, rejection, registered>>

\* no router is involved
NoRouter ==
  /\ entries = <<>> /\ providers = EmptyMap /\ registered = <<>>
  /\ onErrorConfig = [defined |-> FALSE, callback |-> FALSE, message |-> FALSE,
                      fallbackTags |-> Undefined]
  /\ Idle

\* the longest URL template drawn from the alphabet of braces
MaxTemplateLen == 4

\* all strings over the characters cs of length at most n
StringsUpTo(cs, n) == UNION {[1..k -> cs] : k \in 0..n}

\* URL templates: every short string over braces, a name character and a
\* separator; the template of the documentation; a template whose
\* placeholder bears the name of an inherited property
TemplatePool ==
  StringsUpTo({"{", "}", "k", "/"}, MaxTemplateLen)
    \cup {<<"a",":","/","/","{","h","}","/","{","k","}">>,
          UrlInherited}

\* params: none, values needing an escape, a value that looks like a token
SubstituteParamsPool ==
  {EmptyMap,
   <<"k">> :> <<"v"," ","w">>,
   (<<"k">> :> <<"{","k","}">>) @@ (<<"h">> :> <<"h","o","s","t">>)}

SubstituteInit ==
  /\ NoRouter
  /\ fnCall \in {[fn |-> "replacePlaceholders", url |-> u, params |-> ps] :
                    u \in TemplatePool, ps \in SubstituteParamsPool}
  /\ fnReturn = NoReturn

\* replacePlaceholders(url, params) returns the URL or throws the error
CallReplacePlaceholders ==
  /\ fnCall.fn = "replacePlaceholders"
  /\ fnReturn = NoReturn
  /\ LET r == replacePlaceholders(fnCall.url, fnCall.params)
     IN  fnReturn' = IF r.ok THEN [threw |-> FALSE, val |-> r.url]
                            ELSE [threw |-> TRUE, val |-> MissingParamError(r.key)]
  /\ UNCHANGED <<routerVars, fnCall>>

SubstituteSpec == SubstituteInit /\ [][CallReplacePlaceholders]_vars

(***************************************************************************)
(* The URL parser on its own.                                               *)
(***************************************************************************)
\* the values handed to parseFSUrl: texts put together from an outer pad, a
\* schema, a separator, an authority, a path and a query, each drawn from
\* well-formed and ill-formed pieces; and empty, blank and non-string values
RawPool ==
  LET pads == {<<>>, <<" "," ">>}
      schemas == {<<"x">>, <<"A","b">>, <<"a","+","1">>, <<"1","x">>, <<>>}
      separators == {<<":","/","/">>, <<":","/">>}
      authorities == {<<"h">>, <<"H",".","i","o">>, <<"h",":","8","0">>, <<"h",":","p">>, <<"1","2","3","4","5","6","7","8","9","0","1">>, <<"u",":","p","@","h",":","8","0">>,
                      <<"u","@","h",":","8","x">>, <<"%","@","h">>, <<>>}
      paths == {<<>>, <<"/">>, <<"/","a","/","b">>, <<"/","/","a","/","/","b","/">>, <<"/","a","/",".","/",".",".","/","b","/",".",".">>}
      queries == {<<>>, <<"?">>, <<"?","k","=","v","&","k","=","w","&","j","=","1">>, <<"?","v","a","l","u","e","O","f","=","1">>, <<"?","k","=","1","?","j","=","2","&","k","=","3">>,
                  <<"?","k","=","a","+","b","%","2","0","c","#","f">>}
  IN  {JsValue("string", pad \o s \o sep \o a \o p \o q \o pad) :
         pad \in pads, s \in schemas, sep \in separators, a \in authorities,
         p \in paths, q \in queries}
        \cup {JsValue("string", <<>>), JsValue("string", <<" ", "\t">>),
              JsValue("undefined", <<>>),
              JsValue("object", <<"n","u","l","l">>), JsValue("number", <<"5">>),
              JsValue("object", <<"[","o","b","j","e","c","t"," ","O","b","j","e","c","t","]">>)}

ParserInit ==
  /\ NoRouter
  /\ fnCall \in {[fn |-> "parseFSUrl", raw |-> raw] : raw \in RawPool}
  /\ fnReturn = NoReturn

\* parseFSUrl(raw) returns the parsed URL or throws
CallParseFSUrl ==
  /\ fnCall.fn = "parseFSUrl"
  /\ fnReturn = NoReturn
  /\ fnReturn' = parseFSUrl(fnCall.raw)
  /\ UNCHANGED <<routerVars, fnCall>>

ParserSpec == ParserInit /\ [][CallParseFSUrl]_vars

\* parseFSUrl on texts of the form schema://host[:port]/seg1/seg2?k=v&...,
\* with one to three query pairs; the call records the pieces the text was
\* put together from. The long numeric host is one new URL() rejects.
FormInit ==
  LET hosts == {<<"h">>, <<"h",":","8","0">>, <<"1","2","3","4","5","6","7","8","9","0","1">>}
      segs == {<<"a">>, <<"b">>}
      keys == {<<"k">>, <<"j">>, KeyValueOf}
      values == {<<"v">>, <<"w">>}
      pairSeqs == UNION {[1..n -> keys \X values] : n \in 1..3}
      query(pairs) == Join([n \in DOMAIN pairs |-> pairs[n][1] \o <<"=">> \o pairs[n][2]],
                           "&")
  IN  /\ NoRouter
      /\ fnCall \in
           {[fn |-> "parseFSUrl",
             raw |-> JsValue("string", <<"x",":","/","/">> \o host \o <<"/">> \o seg1 \o <<"/">> \o seg2
                                         \o <<"?">> \o query(pairs)),
             seg1 |-> seg1, seg2 |-> seg2, pairs |-> pairs] :
              host \in hosts, seg1 \in segs, seg2 \in segs, pairs \in pairSeqs}
      /\ fnReturn = NoReturn

FormSpec == FormInit /\ [][CallParseFSUrl]_vars

\* the longest path text and query text drawn for the two paths of the parser
MaxPathLen == 2
MaxQueryLen == 3

\* parseFSUrl on two texts with the same path text and the same query text:
\* one with a host new URL() accepts, one with a port it rejects, which takes
\* the parser to its manual catch block
PathsInit ==
  LET paths == {<<>>} \cup {<<"/">> \o p : p \in StringsUpTo({"a", "/"}, MaxPathLen)}
      queries == {<<>>} \cup {<<"?">> \o q :
                                q \in StringsUpTo({"k", "=", "v", "&", "?"}, MaxQueryLen)}
  IN  /\ NoRouter
      /\ fnCall \in {[fn |-> "parseFSUrl twice",
                      strict |-> JsValue("string", <<"x",":","/","/","h">> \o p \o q),
                      manual |-> JsValue("string", <<"x",":","/","/","h",":","p">> \o p \o q)] :
                       p \in paths, q \in queries}
      /\ fnReturn = NoReturn

\* the two calls, one after the other
CallParseFSUrlTwice ==
  /\ fnCall.fn = "parseFSUrl twice"
  /\ fnReturn = NoReturn
  /\ fnReturn' = Returned([strict |-> parseFSUrl(fnCall.strict),
                           manual |-> parseFSUrl(fnCall.manual)])
  /\ UNCHANGED <<routerVars, fnCall>>

PathsSpec == PathsInit /\ [][CallParseFSUrlTwice]_vars

(***************************************************************************)
(* The command-line tool (cli/index.ts, runSend) with destinations from a  *)
(* configuration file: no URL arguments, no FIRE_SIGNAL_URLS.              *)
(***************************************************************************)
\* options.tag?.flatMap((t) => t.split(/[,\s]+/).filter(Boolean))
RECURSIVE SplitTags(_)
SplitTags(tag) ==
  IF tag = <<>> THEN <<>>
  ELSE LET t == Head(tag)
           commas == [k \in DOMAIN t |-> IF IsSpace(t[k]) THEN "," ELSE t[k]]
       IN  FilterBoolean(Split(commas, ",")) \o SplitTags(Tail(tag))

\* runSend up to `new FireSignal({urls: allUrls, logger})`: config.entries is
\* what loadFSConfig() read, one or two entries with their tags; allUrls is
\* their URLs; the constructor registers the built-in providers and adds
\* allUrls without tags
CliInit ==
  LET configEntries == {[url |-> <<"j","s","o","n",":","/","/","h">>, tags |-> <<TagA>>],
                        [url |-> <<"j","s","o","n","s",":","/","/","g">>, tags |-> <<TagB, TagUpperA>>],
                        [url |-> <<"j","s","o","n",":","/","/","f">>, tags |-> <<>>]}
      configs == UNION {[1..n -> configEntries] : n \in 1..2}
      tagOptions == {Undefined, Some(<<<<"a">>>>), Some(<<<<"B">>>>), Some(<<<<"a",","," ","b">>>>),
                     Some(<<<<"c">>>>)}
  IN  /\ fnCall \in {[fn |-> "runSend", config |-> c, tag |-> t] :
                       c \in configs, t \in tagOptions}
      /\ fnReturn = NoReturn
      /\ entries = AddFrom(<<>>, UrlsOf(fnCall.config), <<>>)
      /\ providers = RegisterAll(EmptyMap, createDefaultProviders)
      /\ registered = createDefaultProviders
      /\ onErrorConfig = [defined |-> FALSE, callback |-> FALSE, message |-> FALSE,
                          fallbackTags |-> Undefined]
      /\ Idle

\* fsignal.send(message, { tags })
CliSend ==
  /\ fnCall.fn = "runSend"
  /\ \E body \in BodyPool :
       Send([title |-> "t", body |-> body],
            [tags |-> IF fnCall.tag.defined THEN Some(SplitTags(fnCall.tag.val))
                      ELSE Undefined,
             params |-> EmptyMap])

\* the send() call of runSend, after which the process exits
CliNext ==
  \/ CliSend
  \/ Finish
  \/ ParseUrlThrows
  \/ ProviderSendStart
  \/ ProviderSucceeds
  \/ ProviderFails
  \/ ProviderThrows

CliSpec == CliInit /\ [][CliNext]_vars

(***************************************************************************)
(* parseFSUrl on URLs x://[user[:pass]@]host, for every short host made of *)
(* a letter, a colon, a digit and a second letter.                         *)
(***************************************************************************)
MaxHostLen == 3

HostInit ==
  LET creds == {<<>>, <<"u", "@">>, <<"u", ":", "p", "@">>}
      hosts == StringsUpTo({"h", ":", "8", "x"}, MaxHostLen)
  IN  /\ NoRouter
      /\ fnCall \in {[fn |-> "parseFSUrl", cred |-> c, host |-> h,
                      raw |-> JsValue("string", <<"x", ":", "/", "/">> \o c \o h)] :
                       c \in creds, h \in hosts}
      /\ fnReturn = NoReturn

HostSpec == HostInit /\ [][CallParseFSUrl]_vars

(***************************************************************************)
(* withRetry(fn, options): the call's locals are kept in fnCall, what it    *)
(* settles with in fnReturn.                                               *)
(***************************************************************************)
MaxAttempts == 3

DEFAULT_RETRY_OPTIONS ==
  [maxAttempts |-> 3, initialDelay |-> 1000, backoffMultiplier |-> 2,
   maxDelay |-> 30000]

\* the options of a call: each of them given or left out, onRetry present or not
RetryOptionsPool ==
  {[maxAttempts |-> n, initialDelay |-> d, backoffMultiplier |-> b,
    maxDelay |-> x, onRetry |-> cb] :
     n \in {Undefined} \cup {Some(k) : k \in 0..MaxAttempts},
     d \in {Undefined, Some(0), Some(1), Some(5)},
     b \in {Undefined, Some(0), Some(1), Some(3)},
     x \in {Undefined, Some(0), Some(4)},
     cb \in BOOLEAN}

\* { ...DEFAULT_RETRY_OPTIONS, ...options }
MergedOptions(given) ==
  [f \in DOMAIN DEFAULT_RETRY_OPTIONS |->
     IF given[f].defined THEN given[f].val ELSE DEFAULT_RETRY_OPTIONS[f]]
    @@ [onRetry |-> given.onRetry]

\* what fn() may reject with: two Errors and a value that is no Error
RetryThrowables ==
  {Err("Error", "e1", <<>>), Err("Error", "e2", <<>>), Err("string", "e3", <<>>)}

\* what onRetry may throw
OnRetryThrowables == {Err("Error", "onRetry threw", <<>>)}

RetryInit ==
  /\ NoRouter
  /\ fnCall \in {[fn |-> "withRetry", options |-> o, at |-> "start",
                  attempt |-> 0, delay |-> 0, lastError |-> NoError,
                  fnCalls |-> 0, errors |-> <<>>, onRetryCalls |-> <<>>,
                  waits |-> <<>>] : o \in RetryOptionsPool}
  /\ fnReturn = NoReturn

\* faulty variant: the last attempt is not recognised, onRetry and a sleep
\* follow it
IsLastAttemptOffByOne(attempt, maxAttempts) == attempt > maxAttempts

\* attempt >= opts.maxAttempts
IsLastAttempt(attempt, maxAttempts) == attempt >= maxAttempts

\* the head of the for loop with the locals c: fn() is called, or the loop is
\* over and lastError is thrown
ForLoop(c) ==
  IF c.attempt <= MergedOptions(c.options).maxAttempts
    THEN /\ fnCall' = [c EXCEPT !.at = "fn", !.fnCalls = @ + 1]
         /\ UNCHANGED fnReturn
    ELSE /\ fnCall' = [c EXCEPT !.at = "end"]
         /\ fnReturn' = Thrown(IF c.lastError # NoError THEN c.lastError
                               ELSE Err("Error", "Max retry attempts exceeded", <<>>))

\* withRetry(fn, options) is called
WithRetryStart ==
  /\ fnCall.fn = "withRetry" /\ fnCall.at = "start"
  /\ ForLoop([fnCall EXCEPT !.attempt = 1,
                            !.delay = MergedOptions(fnCall.options).initialDelay])
  /\ UNCHANGED routerVars

\* await fn() resolves: withRetry returns its value
FnResolves ==
  /\ fnCall.fn = "withRetry" /\ fnCall.at = "fn"
  /\ fnCall' = [fnCall EXCEPT !.at = "end"]
  /\ fnReturn' = Returned(<<"v">>)
  /\ UNCHANGED routerVars

\* await fn() rejects: after the last attempt the loop is left and lastError
\* thrown; otherwise onRetry is called, if there is one, and sleep(delay)
\* awaited, unless onRetry throws
FnRejects ==
  /\ fnCall.fn = "withRetry" /\ fnCall.at = "fn"
  /\ \E thrown \in RetryThrowables :
       LET opts == MergedOptions(fnCall.options)
           c == [fnCall EXCEPT !.lastError = ToError(thrown),
                               !.errors = Append(@, ToError(thrown))]
           called == [c EXCEPT !.onRetryCalls =
                                 Append(@, [attempt |-> c.attempt,
                                            error |-> c.lastError,
                                            delay |-> c.delay])]
       IN  IF IsLastAttempt(c.attempt, opts.maxAttempts)
             THEN /\ fnCall' = [c EXCEPT !.at = "end"]
                  /\ fnReturn' = Thrown(c.lastError)
           ELSE IF ~opts.onRetry
             THEN /\ fnCall' = [c EXCEPT !.at = "sleep", !.waits = Append(@, c.delay)]
                  /\ UNCHANGED fnReturn
           ELSE \/ /\ fnCall' = [called EXCEPT !.at = "sleep",
                                               !.waits = Append(@, c.delay)]
                   /\ UNCHANGED fnReturn
                \/ \E e \in OnRetryThrowables :
                     /\ fnCall' = [called EXCEPT !.at = "end"]
                     /\ fnReturn' = Thrown(e)
  /\ UNCHANGED routerVars

\* await sleep(delay) is over: the delay is multiplied and capped, and the
\* next attempt begins
SleepDone ==
  /\ fnCall.fn = "withRetry" /\ fnCall.at = "sleep"
  /\ LET opts == MergedOptions(fnCall.options)
     IN  ForLoop([fnCall EXCEPT
                    !.delay = Min({@ * opts.backoffMultiplier, opts.maxDelay}),
                    !.attempt = @ + 1])
  /\ UNCHANGED routerVars

RetryNext ==
  \/ WithRetryStart
  \/ FnResolves
  \/ FnRejects
  \/ SleepDone

RetrySpec == RetryInit /\ [][RetryNext]_vars

(***************************************************************************)
(* loadConfig(): calls on one router, each of them suspended at its await  *)
(* of loadFSConfig() while others start or go on. this.configLoaded and    *)
(* the calls' positions are kept in fnCall, the store in entries.          *)
(***************************************************************************)
MaxLoadCalls == 3

\* FIRE_SIGNAL_URLS as loadUrlsFromEnv() returns it
EnvUrlsPool == {<<>>, <<UrlPlain>>, <<UrlPlain, UrlOther>>}

\* the entries of the configuration files as loadFSConfig() returns them
ConfigEntriesPool ==
  {<<>>,
   <<[url |-> UrlParam, tags |-> Some(<<TagA>>)]>>,
   <<[url |-> UrlParam, tags |-> Some(<<TagA>>)], 
     [url |-> <<"y", ":", "/", "/", "h">>, tags |-> Undefined]>>}

LoadInit ==
  /\ NoRouter
  /\ fnCall \in {[fn |-> "loadConfig", envUrls |-> e, config |-> c,
                  configLoaded |-> FALSE,
                  calls |-> [n \in 1..MaxLoadCalls |-> "none"]] :
                   e \in EnvUrlsPool, c \in ConfigEntriesPool}
  /\ fnReturn = NoReturn

\* what a step of loadConfig() leaves alone
LoadUnchanged ==
  UNCHANGED <<providers, onErrorConfig, callVars, loopVars, handlerVars,
              internalVars, pc, inflight, sendCalls, rejection, registered,
              fnReturn>>

\* addFromConfig(entries)
RECURSIVE addFromConfig(_, _)
addFromConfig(es, configEntries) ==
  IF configEntries = <<>> THEN es
  ELSE addFromConfig(Append(es, [url |-> Head(configEntries).url,
                                 tags |-> IF Head(configEntries).tags.defined
                                            THEN Head(configEntries).tags.val
                                            ELSE <<>>]),
                     Tail(configEntries))

\* loadConfig() is called: it returns at once when the configuration is
\* loaded; otherwise it adds the environment URLs and awaits loadFSConfig()
LoadConfigStart(n) ==
  /\ fnCall.fn = "loadConfig" /\ fnCall.calls[n] = "none"
  /\ \A m \in 1..(n - 1) : fnCall.calls[m] # "none"
  /\ IF fnCall.configLoaded
       THEN /\ fnCall' = [fnCall EXCEPT !.calls[n] = "returned"]
            /\ UNCHANGED entries
       ELSE /\ fnCall' = [fnCall EXCEPT !.calls[n] = "awaiting"]
            /\ entries' = IF Len(fnCall.envUrls) > 0
                            THEN AddFrom(entries, fnCall.envUrls, <<>>)
                            ELSE entries
  /\ LoadUnchanged

\* await loadFSConfig() resolves: the entries of the files are appended and
\* the configuration is marked loaded
LoadFSConfigResolves(n) ==
  /\ fnCall.fn = "loadConfig" /\ fnCall.calls[n] = "awaiting"
  /\ entries' = IF Len(fnCall.config) > 0
                  THEN addFromConfig(entries, fnCall.config)
                  ELSE entries
  /\ fnCall' = [fnCall EXCEPT !.calls[n] = "resolved", !.configLoaded = TRUE]
  /\ LoadUnchanged

\* await loadFSConfig() rejects with an FSConfigError: loadConfig() rejects
LoadFSConfigRejects(n) ==
  /\ fnCall.fn = "loadConfig" /\ fnCall.calls[n] = "awaiting"
  /\ fnCall' = [fnCall EXCEPT !.calls[n] = "rejected"]
  /\ UNCHANGED entries
  /\ LoadUnchanged

LoadNext ==
  \E n \in 1..MaxLoadCalls :
    \/ LoadConfigStart(n)
    \/ LoadFSConfigResolves(n)
    \/ LoadFSConfigRejects(n)

LoadSpec == LoadInit /\ [][LoadNext]_vars

(***************************************************************************)
(* Properties                                                              *)
(***************************************************************************)
Last(s) == s[Len(s)]

\* the errors a throwing provider leaves in a result
ProviderThrownErrors == {ToError(t) : t \in Throwables}
\* the errors a throwing callback or formatter would leave in a result
HandlerThrownErrors == {ToError(t) : t \in HandlerThrowables}

\* C1: the sequence send() returns has exactly one entry for each destination
\* the tag filter selected.
C1_OneResultPerSelected ==
  pc = "done" => Len(results) = Len(urls)

\* C2: once a provider of the batch has thrown, the destination has a Failed
\* result of that provider carrying the thrown message, and send() does not
\* reject: it goes on with the later destinations, whatever the configured
\* error handler.
C2_ProviderThrowIsolated ==
  (Len(results) > 0 /\ Last(results).error \in ProviderThrownErrors)
    => /\ ~Last(results).success
       /\ \E sch \in DOMAIN providers : Last(results).providerId = providers[sch].id
       /\ pc # "rejected"

\* C3: a failure inside the error handler (callback, formatter, fallback
\* provider) never makes send() reject and never shows in its results.
C3_HandlerFailuresIsolated ==
  /\ pc # "rejected"
  /\ \A k \in DOMAIN results : results[k].error \notin HandlerThrownErrors
  /\ pc = "done" => Len(results) <= Len(urls)

\* validateMessage(message): the body is a non-empty string after trimming
validateMessage(msg) == Trim(msg.body) # <<>>

\* C6: a message whose body is blank is rejected by send(): no provider is
\* called with it, and the returned results report the violation as a failure.
C6_BlankBodyRejected ==
  (pc # "idle" /\ ~validateMessage(message))
    => /\ inflight = 0
       /\ (pc = "done" /\ Len(urls) > 0) => \E k \in DOMAIN results : ~results[k].success

\* the destinations of the batch that send() has finished with
Handled == SubSeq(urls, 1, i - 1)

\* the positions at which a provider of the batch, or the error handling it
\* triggered, is at work for the destination urls[i]
Dispatching == pc \in {"sending", "callback", "fallback", "fb_loop", "fb_sending"}

\* the names a URL references as {name}: the text between a "{" and the first
\* "}" after it, when there is some
BraceKeys(url) ==
  {SubSeq(url, pq[1] + 1, pq[2] - 1) :
     pq \in {xy \in (DOMAIN url) \X (DOMAIN url) :
               /\ url[xy[1]] = "{" /\ url[xy[2]] = "}"
               /\ xy[2] > xy[1] + 1
               /\ \A m \in (xy[1] + 1)..(xy[2] - 1) : url[m] # "}"}}

\* the placeholder names of a URL that the params do not define
MissingKeys(url, params) == BraceKeys(url) \ DOMAIN params

\* the schema of a URL once its placeholders are substituted
SubstitutedSchema(url) ==
  extractSchema(replacePlaceholders(url, options.params).url)

\* a selected URL whose substituted schema no provider is registered for
Unresolvable(url) ==
  /\ MissingKeys(url, options.params) = {}
  /\ SubstitutedSchema(url) \notin DOMAIN providers

IsNotFoundResult(r) == r.error.name = "FSProviderNotFoundError"
IsMissingParamResult(r) == r.error.msg = "Missing param for URL placeholder"

\* C4: the destinations with an unregistered (substituted) schema are exactly
\* the ones with a Failed result carrying a ProviderNotFoundError of that
\* schema, in order; no provider is at work for such a destination; and the
\* batch goes through all its destinations.
C4_UnresolvedSchemeFails ==
  LET want == SelectSeq(Handled, Unresolvable)
      got == SelectSeq(results, IsNotFoundResult)
  IN  /\ Len(got) = Len(want)
      /\ \A k \in DOMAIN got :
           /\ ~got[k].success
           /\ got[k].error.arg = SubstitutedSchema(want[k])
      /\ Dispatching => ~Unresolvable(urls[i])
      /\ pc = "sending" => extractSchema(processedUrl) \in DOMAIN providers
      /\ (pc = "done" /\ Len(urls) > 0) => i = Len(urls) + 1

\* a batch where an unresolvable destination got its result and a later
\* destination was then dispatched with success
C4_Witness ==
  /\ pc = "done"
  /\ Len(results) = 2
  /\ IsNotFoundResult(results[1])
  /\ results[2].success

\* C5: the destinations referencing a placeholder absent from options.params
\* are exactly the ones with a Failed result of provider "unknown" whose error
\* names a missing key, in order; no provider is at work for such a
\* destination; and the batch goes through all its destinations.
C5_MissingParamFails ==
  LET bad(u) == MissingKeys(u, options.params) # {}
      want == SelectSeq(Handled, bad)
      got == SelectSeq(results, IsMissingParamResult)
  IN  /\ Len(got) = Len(want)
      /\ \A k \in DOMAIN got :
           /\ ~got[k].success
           /\ got[k].providerId = UnknownId
           /\ got[k].error.arg \in MissingKeys(want[k], options.params)
      /\ Dispatching => MissingKeys(urls[i], options.params) = {}
      /\ (pc = "done" /\ Len(urls) > 0) => i = Len(urls) + 1

\* the fallback tags that do not occur, as written, among the filter tags of
\* the send
WantedSafeTags ==
  {t \in Range(onErrorConfig.fallbackTags.val) :
     ~options.tags.defined \/ t \notin Range(options.tags.val)}

\* the entries having a tag equal, ignoring letter case, to one of the tags
MatchingEntries(es, tags) ==
  {k \in DOMAIN es :
     \E a \in DOMAIN es[k].tags, b \in DOMAIN tags :
       ToLowerCase(es[k].tags[a]) = ToLowerCase(tags[b])}

\* the URLs of the entries at the positions idx, in store order
RECURSIVE UrlsAt(_, _)
UrlsAt(es, idx) ==
  IF idx = {} THEN <<>>
  ELSE LET m == CHOOSE k \in idx : \A n \in idx : k <= n
       IN  <<es[m].url>> \o UrlsAt(es, idx \ {m})

\* a fallback destination sendInternal() can route: no placeholder, and a
\* registered schema
Routable(url) == BraceKeys(url) = {} /\ extractSchema(url) \in DOMAIN providers

InFallback == pc \in {"fb_loop", "fb_sending"}

\* C7: a fallback dispatch is filtered by exactly the fallback tags that do
\* not occur in the send's filter tags; with no such tag there is no fallback
\* dispatch and no fallback message; with some, the handler goes on to the
\* dispatch, whose targets are the store entries matching those tags, each
\* routable one receiving the fallback message.
C7_FallbackFilteredBySafeTags ==
  /\ [](/\ InFallback =>
             /\ Range(fbTags) = WantedSafeTags
             /\ Len(fbTags) = Cardinality(WantedSafeTags)
             /\ fbUrls = UrlsAt(entries, MatchingEntries(entries, fbTags))
             /\ fbMessage.title = "Fire-Signal Error"
        /\ WantedSafeTags = {} => (~InFallback /\ fbMessage = NoMessage)
        /\ pc = "fb_sending" => (Routable(fbUrls[j]) /\ fbUrl = fbUrls[j])
        /\ pc = "fb_loop" =>
             Len(fbResults) = Len(SelectSeq(SubSeq(fbUrls, 1, j - 1), Routable)))
  /\ [][(pc = "fallback" /\ WantedSafeTags # {} /\ ~onErrorConfig.message)
          => pc' = "fb_loop"]_vars

\* fallbackTags=[a] with tags=[B]: the destination tagged a receives the
\* fallback message
C7_Witness ==
  /\ pc = "fb_sending"
  /\ onErrorConfig.fallbackTags = Some(<<TagA>>)
  /\ options.tags = Some(<<TagUpperB>>)
  /\ \E k \in DOMAIN entries : entries[k].tags = <<TagA>> /\ entries[k].url = fbUrl

\* C8: at most one call of the error handler is open, and while the fallback
\* dispatch runs no callback is invoked and no handler or further fallback
\* dispatch is started, whatever the fallback providers do.
C8_FallbackOneLevel ==
  /\ [](depth <= 1)
  /\ [][InFallback =>
          /\ cbCalls' = cbCalls
          /\ depth' <= depth
          /\ pc' \in {"fb_loop", "fb_sending", "loop"}
          /\ pc' # "loop" => (fbTags' = fbTags /\ fbUrls' = fbUrls)]_vars

\* a provider failed while receiving a fallback message, with a callback
\* configured that was called for the original failure only
C8_Witness ==
  /\ pc = "fb_loop"
  /\ onErrorConfig.callback
  /\ cbCalls = 1
  /\ \E k \in DOMAIN fbResults : ~fbResults[k].success

\* C9: at most one provider call is in flight; a provider call of the batch
\* starts only for the current destination, with nothing in flight and no
\* handler open; the batch moves on by one destination at a time, once the
\* call and the error handling are over; and the destinations are those of the
\* store in insertion order.
C9_OneCallAtATime ==
  /\ [](/\ inflight <= 1
        /\ inflight = 1 <=> pc \in {"sending", "fb_sending"}
        /\ pc # "idle" =>
             \E idx \in SUBSET (DOMAIN entries) : urls = UrlsAt(entries, idx))
  /\ [][/\ (pc' = "sending" /\ pc # "sending") =>
             /\ pc = "loop" /\ inflight = 0 /\ depth = 0
             /\ i' = i
             /\ processedUrl' = replacePlaceholders(urls[i], options.params).url
        /\ i' # i =>
             \/ pc = "idle"
             \/ pc' = "idle"
             \/ i' = i + 1 /\ inflight' = 0 /\ depth' = 0 /\ pc' = "loop"]_vars

\* the call for the second destination is in flight after the first one
\* failed and its error handling ran
C9_Witness ==
  /\ pc = "sending"
  /\ i = 2
  /\ cbCalls = 1
  /\ Len(results) = 1 /\ ~results[1].success

\* C10: with a non-empty filter the tag filter returns the URLs of exactly the
\* entries having a tag equal, ignoring case, to a filter tag, in entry order,
\* never an untagged entry; and send() with tags dispatches to those only.
C10_FilterSelectsMatching ==
  /\ \A ft \in FilterTagPool :
       (ft.defined /\ Len(ft.val) > 0) =>
         /\ filterByTags(entries, ft) =
              UrlsAt(entries, MatchingEntries(entries, ft.val))
         /\ \A k \in MatchingEntries(entries, ft.val) : entries[k].tags # <<>>
  /\ (pc # "idle" /\ options.tags.defined /\ Len(options.tags.val) > 0) =>
       /\ urls = UrlsAt(entries, MatchingEntries(entries, options.tags.val))
       /\ pc = "sending" =>
            /\ i \in DOMAIN urls
            /\ processedUrl = replacePlaceholders(urls[i], options.params).url

\* a send with tags [B] over a store with an untagged entry and an entry
\* tagged [b, A]: only the latter is dispatched to
C10_Witness ==
  /\ pc = "sending"
  /\ options.tags = Some(<<TagUpperB>>)
  /\ Len(entries) = 2 /\ Len(urls) = 1
  /\ entries[1].tags = <<>>
  /\ entries[2].tags = <<TagB, TagUpperA>>

\* C11: with an absent or an empty filter the tag filter returns the URL of
\* every entry, tagged or not, once each and in entry order; and send()
\* without filter tags selects every destination of the store.
C11_NoFilterSelectsAll ==
  /\ \A ft \in {f \in FilterTagPool : ~f.defined \/ Len(f.val) = 0} :
       LET got == filterByTags(entries, ft)
       IN  /\ Len(got) = Len(entries)
           /\ \A k \in DOMAIN entries : got[k] = entries[k].url
  /\ (pc # "idle" /\ (~options.tags.defined \/ Len(options.tags.val) = 0)) =>
       /\ Len(urls) = Len(entries)
       /\ \A k \in DOMAIN entries : urls[k] = entries[k].url

\* a send with tags [] over a store with an untagged and a tagged entry has
\* reached the second of its two destinations
C11_Witness ==
  /\ pc = "sending" /\ i = 2
  /\ options.tags = Some(<<>>)
  /\ Len(entries) = 2 /\ Len(urls) = 2
  /\ entries[1].tags = <<>>
  /\ entries[2].tags # <<>>

\* the provider most recently registered for a schema, compared ignoring
\* letter case, if there is one
LastOwner(schema) ==
  LET owners == {k \in DOMAIN registered :
                   \E n \in DOMAIN registered[k].schemas :
                     ToLowerCase(registered[k].schemas[n]) = ToLowerCase(schema)}
  IN  IF owners = {}
        THEN Undefined
        ELSE Some(registered[CHOOSE k \in owners : \A n \in owners : k >= n])

\* C12: after the constructor and any sequence of registrations, resolving a
\* schema in any letter case gives the provider most recently registered for
\* it, or nothing; and a lookup returns just that.
C12_LastRegistrationWins ==
  /\ \A s \in SchemaQueryPool : getProvider(providers, s) = LastOwner(s)
  /\ fnCall.fn = "getProvider" => fnReturn.val = LastOwner(fnCall.schema)

\* the built-ins, then CustomA (which declares JSON and y), then CustomB
\* (which declares Y and z): a lookup of "Y" gives CustomB, while CustomA
\* still owns json and the built-in still owns jsons
C12_Witness ==
  /\ fnCall.fn = "getProvider" /\ fnCall.schema = <<"Y">>
  /\ fnReturn.val = Some(CustomB)
  /\ \E a, b \in DOMAIN registered :
       a < b /\ registered[a] = CustomA /\ registered[b] = CustomB
  /\ registered[1] = JsonWebhookProvider
  /\ getProvider(providers, SchemaJson) = Some(CustomA)
  /\ getProvider(providers, SchemaJsons) = Some(JsonWebhookProvider)

\* the {name} tokens of a URL template, as pairs of the positions of their
\* braces: a "{" outside any earlier token, followed by a name of at least one
\* character and the first "}" after it
Tokens(url) ==
  {pq \in (DOMAIN url) \X (DOMAIN url) :
     /\ url[pq[1]] = "{" /\ url[pq[2]] = "}"
     /\ pq[2] > pq[1] + 1
     /\ \A n \in (pq[1] + 1)..(pq[2] - 1) : url[n] # "}"
     /\ ~\E o \in 1..(pq[1] - 1) :
          url[o] = "{" /\ \A n \in (o + 1)..pq[1] : url[n] # "}"}

TokenNames(url) == {SubSeq(url, pq[1] + 1, pq[2] - 1) : pq \in Tokens(url)}

\* the template with each token, from position p on, replaced by the
\* percent-encoded value of its name, and the rest of the text as it is
RECURSIVE Substituted(_, _, _)
Substituted(url, params, p) ==
  LET later == {pq \in Tokens(url) : pq[1] >= p}
      tok == CHOOSE pq \in later : \A o \in later : pq[1] <= o[1]
  IN  IF later = {}
        THEN SubSeq(url, p, Len(url))
        ELSE SubSeq(url, p, tok[1] - 1)
               \o encodeURIComponent(params[SubSeq(url, tok[1] + 1, tok[2] - 1)])
               \o Substituted(url, params, tok[2] + 1)

\* C13: once replacePlaceholders has been applied, either every token name is
\* present in params and the outcome is the template with each token replaced
\* by the percent-encoded value and all other text unchanged, or some name is
\* absent and the outcome is an error naming an absent key, and no URL.
C13_SubstituteAllOrFail ==
  (fnCall.fn = "replacePlaceholders" /\ fnReturn # NoReturn) =>
    LET absent == TokenNames(fnCall.url) \ DOMAIN fnCall.params
    IN  IF absent = {}
          THEN /\ ~fnReturn.threw
               /\ fnReturn.val = Substituted(fnCall.url, fnCall.params, 1)
          ELSE /\ fnReturn.threw
               /\ fnReturn.val.msg = "Missing param for URL placeholder"
               /\ fnReturn.val.arg \in absent

\* the text starts with ^[a-zA-Z][a-zA-Z0-9+.-]*://
StartsWithSchema(text) ==
  \E n \in 1..Len(text) :
    /\ text[1] \in Range(UpperLetters) \cup Range(LowerLetters)
    /\ \A k \in 2..n :
         text[k] \in Range(UpperLetters) \cup Range(LowerLetters) \cup Digits
                       \cup {"+", ".", "-"}
    /\ Len(text) >= n + 3
    /\ SubSeq(text, n + 1, n + 3) = <<":","/","/">>

ParseCalled == fnCall.fn = "parseFSUrl" /\ fnReturn # NoReturn

\* C14: parseFSUrl throws an FSParseError, and returns nothing, exactly for
\* the values that are no string, are empty or blank, or whose trimmed text
\* does not start with a schema followed by "://".
C14_ParseErrorIffNoSchema ==
  ParseCalled =>
    LET raw == fnCall.raw
        wellFormed == raw.type = "string" /\ StartsWithSchema(Trim(raw.val))
    IN  (fnReturn.threw /\ fnReturn.val.name = "FSParseError") <=> ~wellFormed

\* a padded text whose schema is followed by ":/" only was rejected
C14_Witness ==
  /\ ParseCalled
  /\ fnCall.raw.type = "string"
  /\ fnCall.raw.val # Trim(fnCall.raw.val)
  /\ Trim(fnCall.raw.val) = <<"x",":","/","h",":","p","/","a","/","b">>
  /\ fnReturn.threw

\* C15: every record parseFSUrl returns has a schema that is present and is
\* the lower-cased schema of the input, no empty segment (none at all when
\* no "/" follows the authority), and raw equal to the trimmed input.
C15_RecordWellFormed ==
  (ParseCalled /\ ~fnReturn.threw) =>
    LET trimmed == Trim(fnCall.raw.val)
        colon == Min(Positions(trimmed, ":"))
        afterSchema == After(trimmed, colon + 2)
        r == fnReturn.val
    IN  /\ r.schema # <<>>
        /\ r.schema = ToLowerCase(SubSeq(trimmed, 1, colon - 1))
        /\ \A k \in DOMAIN r.schema : r.schema[k] \notin Range(UpperLetters)
        /\ \A k \in DOMAIN r.segments : r.segments[k] # <<>>
        /\ Positions(afterSchema, "/") = {} => r.segments = <<>>
        /\ r.raw = trimmed

\* a padded URL with an upper-case letter in its schema, doubled and trailing
\* slashes and a port that only the manual path accepts was parsed
C15_Witness ==
  /\ ParseCalled /\ ~fnReturn.threw
  /\ fnCall.raw.val = <<" "," ","A","b",":","/","/","h",":","p","/","/","a","/","/","b","/","?","k","=","v","&","k","=","w","&","j","=","1"," "," ">>
  /\ fnReturn.val.schema = <<"a","b">>
  /\ fnReturn.val.segments = <<<<"a">>, <<"b">>>>
  /\ fnReturn.val.hostname = Some(<<"h",":","p">>)

\* C16: for a text schema://host[:port]/seg1/seg2?k=v&..., parseFSUrl returns
\* segments = [seg1, seg2] and a parameter map that holds, for every key of
\* the query, its value as a plain string when it occurs once and the list of
\* its values in query order when it occurs more often.
C16_SegmentsAndParamsInOrder ==
  (ParseCalled /\ "pairs" \in DOMAIN fnCall) =>
    LET r == fnReturn.val
        pairs == fnCall.pairs
        keys == {pairs[n][1] : n \in DOMAIN pairs}
        of(key) == SelectSeq(pairs, LAMBDA p : p[1] = key)
        string(v) == [kind |-> "string", val |-> v]
        expected(key) ==
          IF Len(of(key)) = 1 THEN string(of(key)[1][2])
          ELSE [kind |-> "array",
                val |-> [n \in DOMAIN of(key) |-> string(of(key)[n][2])]]
    IN  /\ ~fnReturn.threw
        /\ r.segments = <<fnCall.seg1, fnCall.seg2>>
        /\ DOMAIN r.params = keys
        /\ \A key \in keys : r.params[key] = expected(key)

\* C17: for the same path text and the same query text, the record parsed
\* through new URL() and the record parsed by the manual catch block hold the
\* same parameter map and the same segments.
C17_PathsAgree ==
  (fnCall.fn = "parseFSUrl twice" /\ fnReturn # NoReturn) =>
    LET strict == fnReturn.val.strict
        manual == fnReturn.val.manual
    IN  /\ ~strict.threw /\ ~manual.threw
        /\ strict.val.hostname = Some(<<"h">>) /\ manual.val.hostname = Some(<<"h",":","p">>)
        /\ strict.val.params = manual.val.params
        /\ strict.val.segments = manual.val.segments

\* C18: the command-line tool run with -g tags over destinations from a
\* configuration file sends to exactly the configured destinations that have
\* a tag equal, ignoring case, to one of the -g tags.
C18_CliFiltersConfigTags ==
  (fnCall.fn = "runSend" /\ fnCall.tag.defined /\ pc # "idle") =>
    urls = UrlsAt(fnCall.config, MatchingEntries(fnCall.config, options.tags.val))

\* what add(addUrls, tags) is to append: an entry with the trimmed URL and
\* the tags for every URL that is not blank, in the order given
Appended(addUrls, tags) ==
  LET kept == SelectSeq(addUrls, LAMBDA u : Trim(u) # <<>>)
  IN  [k \in DOMAIN kept |-> [url |-> Trim(kept[k]), tags |-> tags]]

\* C19: add(urls, tags) appends, in the order given, one entry per URL that
\* is not blank, trimmed and with the tags, and skips blank URLs; every entry
\* stored before keeps its place and its content, whatever step is taken, so
\* the URLs of the store are listed in insertion order.
C19_AddAppendsInOrder ==
  /\ [](pc = "idle" =>
          \A addUrls \in AddInputs, tags \in EntryTagPool :
            AddFrom(entries, addUrls, tags) = entries \o Appended(addUrls, tags))
  /\ [][/\ SubSeq(entries', 1, Len(entries)) = entries
        /\ entries' # entries =>
             /\ pc = "idle"
             /\ \E addUrls \in AddInputs, tags \in EntryTagPool :
                  /\ entries' = entries \o Appended(addUrls, tags)
                  /\ UrlsOf(entries') = UrlsOf(entries) \o UrlsOf(Appended(addUrls, tags))]_vars

\* two add() calls have stored two destinations, the second given with white
\* space around it, in the order of the calls
C19_Witness ==
  /\ Len(entries) = 2
  /\ entries[1] = [url |-> UrlOther, tags |-> <<TagA>>]
  /\ entries[2] = [url |-> UrlPlain, tags |-> <<>>]
  /\ pc = "idle"

\* a Failed result of a provider: reported by it, or made from what it threw
IsProviderFailure(r) ==
  ~r.success /\ ~IsNotFoundResult(r) /\ ~IsMissingParamResult(r)

\* C20: during a send() the error handler, and with it a configured callback,
\* is invoked once for every Failed result of a provider and for no other
\* result, and at most once for each selected destination a provider was
\* found for.
C20_HandlerOncePerFailure ==
  (pc # "idle" /\ onErrorConfig.defined /\ onErrorConfig.callback) =>
    LET dispatched == {k \in DOMAIN urls :
                         /\ k <= i
                         /\ MissingKeys(urls[k], options.params) = {}
                         /\ ~Unresolvable(urls[k])}
    IN  /\ cbCalls = Len(SelectSeq(results, IsProviderFailure))
        /\ cbCalls <= Cardinality(dispatched)

(***************************************************************************)
(* send() with every step it can take taken in the end: provider calls and *)
(* callbacks settle, and a continuation that can run is run.               *)
(***************************************************************************)
\* a step of a send() call under way
SendStep ==
  \/ Finish
  \/ SubstituteFails
  \/ ProviderMissing
  \/ ParseUrlThrows
  \/ ProviderSendStart
  \/ ProviderSucceeds
  \/ ProviderFails
  \/ ProviderThrows
  \/ CallbackReturns
  \/ CallbackThrows
  \/ HandlerSkipsFallback
  \/ FormatterThrows
  \/ FallbackDispatch
  \/ InternalFinish
  \/ InternalSkip
  \/ InternalParseUrlThrows
  \/ InternalSendStart
  \/ InternalProviderSucceeds
  \/ InternalProviderFails
  \/ InternalProviderThrows

\* the stores the calls of add() leave: two destinations, the first routable
\* or in need of a parameter, the second routable or of an unregistered
\* scheme, each with one or two tags
LiveStores ==
  LET tagged == {<<TagA>>, <<TagB, TagUpperA>>}
  IN  {<<[url |-> u, tags |-> s], [url |-> v, tags |-> t]>> :
         u \in {UrlPlain, UrlParam}, v \in {UrlPlain, UrlOther},
         s \in tagged, t \in tagged}

LiveInit ==
  /\ entries \in LiveStores
  /\ providers = RegisterAll(EmptyMap, <<ProviderX>>)
  /\ registered = <<ProviderX>>
  /\ onErrorConfig \in OnErrorPool
  /\ Idle
  /\ fnCall = NoCall /\ fnReturn = NoReturn

\* one send() call, followed to its end
LiveNext ==
  \/ \E tags \in FilterTagPool, params \in ParamsPool :
       Send([title |-> "t", body |-> <<"m">>], [tags |-> tags, params |-> params])
  \/ SendStep

LiveSpec == LiveInit /\ [][LiveNext]_vars /\ WF_vars(SendStep)

\* the results of this send() that record a failure in a provider, one for
\* each destination that failed there
FailedInProvider ==
  LET failed(r) == IsProviderFailure(r) /\ r.error \notin HandlerThrownErrors
  IN  SelectSeq(results, failed)

\* the destinations matching the safe fallback tags of this send()
SafeFallbackTargets == MatchingEntries(entries, CurrentSafeTags)

\* C21: a send() call whose provider calls and callbacks return terminates,
\* and at every moment it has made at most S + F x B provider send
\* invocations: S the number of selected destinations, F the number of them
\* that failed in a provider, B the number of destinations matching the safe
\* fallback tags.
C21_SendTerminatesBounded ==
  /\ [](pc # "idle" =>
          sendCalls <= Len(urls)
                         + Len(FailedInProvider) * Cardinality(SafeFallbackTargets))
  /\ (pc # "idle") ~> (pc \in {"done", "rejected"})

\* two destinations, both failing, both matching the safe fallback tags: six
\* provider calls
C21_Witness ==
  /\ pc = "done"
  /\ Len(urls) = 2 /\ Len(FailedInProvider) = 2
  /\ Cardinality(SafeFallbackTargets) = 2
  /\ sendCalls = 6

\* r is a result send() makes for the destination url: the failure of the
\* substitution, the failure to find a provider, or a result bearing the id
\* of the provider its scheme resolves to
IsResultOf(r, url) ==
  IF MissingKeys(url, options.params) # {}
    THEN IsMissingParamResult(r) /\ r.providerId = UnknownId /\ ~r.success
  ELSE IF Unresolvable(url)
    THEN IsNotFoundResult(r) /\ ~r.success
  ELSE /\ r.providerId = providers[SubstitutedSchema(url)].id
       /\ r.success \/ IsProviderFailure(r)

\* C22: the sequence send() returns has, at position k, the result of the
\* k-th destination the tag filter selected, whatever mix of successes,
\* substitution failures, unresolved schemes and provider failures occurs.
C22_ResultsInSelectionOrder ==
  pc = "done" =>
    /\ Len(results) = Len(urls)
    /\ urls = filterByTags(entries, options.tags)
    /\ \A k \in DOMAIN results : k \in DOMAIN urls /\ IsResultOf(results[k], urls[k])

\* onError has both a callback and fallbackTags
CallbackAndFallback == onErrorConfig.callback /\ onErrorConfig.fallbackTags.defined

\* C23: with a callback and fallbackTags configured, every provider failure
\* invokes the callback; while the callback is awaited no fallback provider
\* call has started; the fallback stage is entered only when the callback has
\* settled, in the same state whether it returned or threw; and from there
\* the dispatch to the safe tags takes place.
C23_CallbackBeforeFallback ==
  /\ [](CallbackAndFallback /\ pc = "callback" =>
          /\ inflight = 0 /\ depth = 1
          /\ fbUrls = <<>> /\ fbResults = <<>> /\ fbMessage = NoMessage)
  /\ [](CallbackAndFallback /\ InFallback => cbCalls >= 1)
  /\ [][CallbackAndFallback /\ Len(results') > Len(results)
          /\ IsProviderFailure(Last(results'))
          => pc' = "callback" /\ cbCalls' = cbCalls + 1]_vars
  /\ [][CallbackAndFallback /\ pc' = "fallback" => pc = "callback"]_vars
  /\ [][CallbackAndFallback /\ pc = "callback"
          => /\ pc' = "fallback"
             /\ UNCHANGED <<storeVars, callVars, loopVars, handlerVars,
                            internalVars, inflight, sendCalls, rejection>>]_vars
  /\ [][CallbackAndFallback /\ pc = "fallback" /\ Len(CurrentSafeTags) > 0
          /\ ~onErrorConfig.message
          => /\ pc' = "fb_loop"
             /\ fbUrls' = filterByTags(entries, Some(CurrentSafeTags))]_vars

\* a callback has been invoked once and has settled, and a fallback provider
\* call is under way
C23_Witness ==
  /\ onErrorConfig.callback
  /\ pc = "fb_sending" /\ cbCalls = 1 /\ depth = 1

\* the URL the current destination's template becomes with the params of
\* this send()
CurrentSubstituted == replacePlaceholders(urls[i], options.params).url

\* C24: the provider and the error handler are handed the URL with the
\* placeholders substituted, never the template, and the filter tags of the
\* send() as they were passed; the store is not touched by a send(), whose
\* URLs are the templates of the store, so every send() substitutes afresh.
C24_ContextsCarrySubstitutedUrl ==
  /\ [](pc = "sending" =>
          /\ ProviderContext.url = CurrentSubstituted
          /\ BraceKeys(ProviderContext.url) = {}
          /\ ProviderContext.tags = options.tags)
  /\ [](pc \in {"callback", "fallback", "fb_loop", "fb_sending"} =>
          /\ ErrorContext.url = CurrentSubstituted
          /\ BraceKeys(ErrorContext.url) = {}
          /\ ErrorContext.tags = options.tags
          /\ ErrorContext.providerId = providers[extractSchema(CurrentSubstituted)].id)
  /\ [](pc # "idle" => urls = filterByTags(entries, options.tags))
  /\ [][pc # "idle" => entries' = entries]_vars
  /\ [][pc \notin {"idle", "done", "rejected"} => options' = options]_vars

\* the destination {s}://h is sent with s=X: the provider is handed X://h
\* while the store still holds the template
C24_Witness ==
  /\ pc = "sending"
  /\ urls[i] = UrlParam
  /\ ProviderContext.url = <<"X", ":", "/", "/", "h">>
  /\ \E k \in DOMAIN entries : entries[k].url = UrlParam

\* the call went through the manual path: the URL constructor rejected the
\* URL, and parseFSUrl returned a record
OnManualPath ==
  /\ ParseCalled /\ ~fnReturn.threw
  /\ ~NewURL(<<"h","t","t","p","s",":","/","/">> \o fnCall.cred \o fnCall.host).defined

\* C25: on the manual path the host component is split at its last colon, and
\* a port is reported only when what follows that colon is all decimal
\* digits; otherwise no port is reported and the hostname is the whole host
\* component, with credentials and without.
C25_PortOnlyFromDigits ==
  OnManualPath =>
    LET host == fnCall.host
        colons == Positions(host, ":")
        last == IF colons = {} THEN 0 ELSE Max(colons)
    IN  IF last # 0 /\ AllDigits(After(host, last))
          THEN /\ fnReturn.val.port = Some(DigitsValue(After(host, last)))
               /\ fnReturn.val.hostname = Some(SubSeq(host, 1, last - 1))
          ELSE /\ fnReturn.val.port = Undefined
               /\ fnReturn.val.hostname = Some(host)

\* a withRetry call with maxAttempts at least 1
Retrying == fnCall.fn = "withRetry" /\ MergedOptions(fnCall.options).maxAttempts >= 1

\* C26: withRetry calls fn at most maxAttempts times; it returns the value of
\* the first attempt that succeeds and makes no attempt after it; after
\* maxAttempts failures it rejects with the error of the last attempt;
\* onRetry is called once after every failed attempt that is followed by
\* another, with that attempt's number, and not after the last failure.
C26_RetryAttempts ==
  /\ [](Retrying =>
          LET n == MergedOptions(fnCall.options).maxAttempts
              failed == Len(fnCall.errors)
              notified == Len(fnCall.onRetryCalls)
          IN  /\ fnCall.fnCalls <= n
              /\ fnCall.at = "fn" => fnCall.fnCalls = failed + 1
              /\ (fnCall.at = "end" /\ ~fnReturn.threw) =>
                   /\ fnReturn.val = <<"v">>
                   /\ fnCall.fnCalls = failed + 1
              /\ failed = n =>
                   /\ fnCall.at = "end"
                   /\ fnReturn = Thrown(Last(fnCall.errors))
                   /\ fnCall.fnCalls = n
                   /\ notified <= n - 1
                   /\ fnCall.options.onRetry /\ fnReturn.val \notin OnRetryThrowables
                        => notified = n - 1
              /\ ~fnCall.options.onRetry => notified = 0
              /\ fnCall.options.onRetry =>
                   /\ fnCall.at \in {"fn", "sleep"} => notified = fnCall.fnCalls - 1
                                                        + (IF fnCall.at = "sleep" THEN 1 ELSE 0)
                   /\ \A k \in 1..notified :
                        /\ fnCall.onRetryCalls[k].attempt = k
                        /\ fnCall.onRetryCalls[k].error = fnCall.errors[k])
  /\ [][fnCall.fn = "withRetry" /\ fnCall.at = "end" => UNCHANGED fnCall]_vars
  /\ [](fnCall.fn = "withRetry" /\ MergedOptions(fnCall.options).maxAttempts = 0
        => fnCall.fnCalls = 0 /\ fnCall.onRetryCalls = <<>>)

\* three attempts, all failing with different errors: two calls of onRetry,
\* and the third error is what withRetry rejects with
C26_Witness ==
  /\ fnCall.fn = "withRetry" /\ fnCall.at = "end"
  /\ fnCall.options.maxAttempts = Some(3) /\ fnCall.options.onRetry
  /\ fnCall.fnCalls = 3 /\ Len(fnCall.errors) = 3 /\ Len(fnCall.onRetryCalls) = 2
  /\ fnCall.errors[1] # fnCall.errors[3]
  /\ fnReturn = Thrown(fnCall.errors[3])

\* b to the power e, for e >= 0
RECURSIVE Power(_, _)
Power(b, e) == IF e = 0 THEN 1 ELSE b * Power(b, e - 1)

\* C27: every delay withRetry waits between two attempts is at most maxDelay,
\* and the k-th of them is min(initialDelay * backoffMultiplier^(k-1), maxDelay).
C27_DelaysCapped ==
  fnCall.fn = "withRetry" =>
    LET opts == MergedOptions(fnCall.options)
    IN  \A k \in DOMAIN fnCall.waits :
          /\ fnCall.waits[k] <= opts.maxDelay
          /\ fnCall.waits[k] =
               Min({opts.initialDelay * Power(opts.backoffMultiplier, k - 1),
                    opts.maxDelay})

\* the k-th smallest member of the set of positions idx
Nth(idx, k) == CHOOSE m \in idx : Cardinality({n \in idx : n <= m}) = k

\* the store positions the send's filter selects
SelectedEntries ==
  IF ~options.tags.defined \/ options.tags.val = <<>> THEN DOMAIN entries
  ELSE MatchingEntries(entries, options.tags.val)

\* C28: while the fallback for a failed destination is dispatched, the
\* destination a fallback provider call goes to is never the failed
\* destination itself.
C28_FallbackAvoidsFailed ==
  pc = "fb_sending" =>
    Nth(MatchingEntries(entries, fbTags), j) # Nth(SelectedEntries, i)

\* the number of store entries with the URL url
Occurrences(url) == Cardinality({k \in DOMAIN entries : entries[k].url = url})

\* C29: whatever loadConfig() calls have been made, failed or overlapping,
\* every environment URL and every entry of the configuration files is in
\* the store at most once, and a call made when the configuration is loaded
\* leaves the store alone.
C29_LoadedAtMostOnce ==
  /\ [](fnCall.fn = "loadConfig" =>
          /\ \A u \in Range(fnCall.envUrls) : Occurrences(u) <= 1
          /\ \A k \in DOMAIN fnCall.config : Occurrences(fnCall.config[k].url) <= 1)
  /\ [][(fnCall.fn = "loadConfig" /\ fnCall.configLoaded
          /\ \E n \in 1..MaxLoadCalls :
               fnCall.calls[n] = "none" /\ fnCall'.calls[n] # "none")
          => entries' = entries]_vars

\* C30: no fallback provider call goes to a destination whose URL has a
\* {name} token or whose scheme has no provider; such a destination leaves no
\* entry in the results of the dispatch, which has one entry for each of the
\* other destinations it has passed; the dispatch raises no error and opens
\* no further handler call.
C30_UnroutableFallbackSkipped ==
  /\ pc = "fb_sending" => Routable(fbUrls[j])
  /\ pc = "fb_loop" =>
       Len(fbResults) = Len(SelectSeq(SubSeq(fbUrls, 1, j - 1), Routable))
  /\ InFallback => (rejection = NoError /\ depth = 1)

====
